---- MODULE Spec2Model ----
(***************************************************************************)
(* A model of deduplidog (src/deduplidog/deduplidog.py): the configuration *)
(* check, the candidate index, the plain and the media matcher, the affect *)
(* decision with its warning gate, the rename / delete / replace actions   *)
(* and the file loop with its retries, run once or twice over a small file *)
(* system.                                                                 *)
(***************************************************************************)
EXTENDS Integers, Sequences, FiniteSets, TLC

VARIABLES
    cfg,            \* the Deduplidog dataclass fields set by the caller
    fs,             \* the file system: existing path -> file
    fs0,            \* the file system when the current run started
    pc,             \* "new", "checked", "rejected", "crashed", "loop", "done", "aborted"
    run,            \* 1 for the first run, 2 for the second ...
    build_cache,    \* functools.cache of build_originals: <<>> or <<list>>
    file_list,      \* self.file_list
    files_cache,    \* self._files_cache: key -> bucket of originals
    work_files,     \* the list _loop_files iterates
    idx,            \* position of the loop in work_files
    attempt,        \* the attempt (0..4) the loop is at for work_files[idx]
    changes,        \* self.changes
    passed_away,    \* self.passed_away
    size_affected,  \* self.size_affected
    affected_count, \* self.affected_count
    warning_count,  \* self.warning_count
    ignored_count,  \* self.ignored_count
    having_multiple_candidates, \* self.having_multiple_candidates
    metadata,       \* self.metadata: path -> the cached hash, mtime and EXIF times
    fsops,          \* history: the file system calls this run performed
    trace,          \* history: one record per attempt of _process_file in this run
    faults,         \* environment: the transient I/O errors still to come
    bar_n,          \* bar.n of the tqdm bar over the work files
    offset,         \* the skip value the "Interrupted" message reported, or NoOffset
    sleeps,         \* history: the sleep() calls of this run
    prior           \* history: <<>>, or <<the interrupted run a resumed run continues>>

vars == <<cfg, fs, fs0, pc, run, build_cache, file_list,
          files_cache, work_files, idx, attempt, changes, passed_away,
          size_affected, affected_count, warning_count, ignored_count,
          having_multiple_candidates, metadata, fsops, trace,
          faults, bar_n, offset, sleeps, prior>>

\* the loop's progress report and the environment's inputs
loopvars == <<faults, bar_n, offset, sleeps, prior>>

----------------------------------------------------------------------------
(* Bounds of the model and constants of the program *)

\* ticks per second: mtimes are floats, a tick is the smallest difference modelled
Hz == 2

\* the number of runs of the program over the same directories
MaxRuns == 2

\* the largest tolerate_hour magnitude drawn as an input
MaxTolerate == 2

\* seconds per hour, as _find_similar divides
Hour == 3600

\* range(5) of _loop_files
MaxAttempts == 5

HourT == Hour * Hz

----------------------------------------------------------------------------
(* Paths and files *)

Marker == "MARK"    \* the character U+2713 that _rename prepends

WorkDirs == {"w1", "w2"}
OtherDirs == {"o1", "o2"}

Path(d, s, e) == [dir |-> d, stem |-> s, ext |-> e]

NoPath == Path("", <<>>, "")

DevNull == Path("/dev", <<"n", "u", "l", "l">>, "")

IMAGE_SUFFIXES == {".jpg", ".png"}
VIDEO_SUFFIXES == {".mp4", ".mov"}

\* str.lower() / str.casefold() of a suffix or of one character
LowerOf(x) ==
    CASE x = ".JPG" -> ".jpg"
      [] x = ".MP4" -> ".mp4"
      [] x = "A" -> "a"
      [] x = "B" -> "b"
      [] OTHER -> x

RECURSIVE CasefoldSeq(_)
CasefoldSeq(s) ==
    IF s = <<>> THEN <<>> ELSE <<LowerOf(Head(s))>> \o CasefoldSeq(Tail(s))

\* Path.name of a file, as a pair: _rename and _replace_with_original compare names
NameOf(p) == <<p.stem, p.ext>>

\* name.startswith(the marker)
StartsWithMarker(p) == p.stem # <<>> /\ Head(p.stem) = Marker

\* affected_file.with_name(marker + affected_file.name)
WithMarker(p) == [p EXCEPT !.stem = <<Marker>> \o p.stem]

\* utils.crc: CRC32 of the content; two contents may collide
Crc(f) == f.data % 2

\* a regular file: what stat and the readers of its content see
File(sz, dt, mt, h, fr) ==
    [size |-> sz, data |-> dt, mtime |-> mt, hash |-> h, frames |-> fr, link |-> FALSE,
     exif |-> {}]

\* an image that carries the EXIF capture times E
WithExif(f, E) == [f EXCEPT !.exif = E]

\* os.symlink: a link at the path; stat shows the file it points to
Symlink(f) == [f EXCEPT !.link = TRUE]

\* the directories below original_dir: work_dir itself when original_dir is left empty
OrigDirs(c) == IF c.original_dir = "" \/ c.original_dir = c.work_dir THEN WorkDirs ELSE OtherDirs

----------------------------------------------------------------------------
(* Configuration *)

Tol(k, lo, hi) == [kind |-> k, lo |-> lo, hi |-> hi]

\* work_file_stem_shortened = None
NoLimit == -1

\* space2char given as the flag it is declared to be: the bool True
FlagSet == "True"

TolFalse == Tol("bool", 0, 0)
TolTrue == Tol("bool", 1, 1)

Default ==
    [work_dir |-> "work", original_dir |-> "orig",
     execute |-> FALSE, bashify |-> FALSE, rename |-> FALSE, delete |-> FALSE,
     replace_with_original |-> FALSE, set_both_to_older_date |-> FALSE,
     treat_bigger_as_original |-> FALSE, skip_bigger |-> FALSE,
     skip_empty |-> FALSE, neglect_warning |-> FALSE, casefold |-> FALSE,
     checksum |-> FALSE, tolerate_hour |-> TolFalse, ignore_name |-> FALSE,
     ignore_date |-> FALSE, ignore_size |-> FALSE, invert_selection |-> FALSE,
     media_magic |-> FALSE, accepted_frame_delta |-> 1,
     accepted_img_hash_diff |-> 1, img_compare_date |-> FALSE, fail_on_error |-> FALSE, skip |-> 0,
     space2char |-> "", strip_end_counter |-> FALSE, strip_suffix |-> <<>>,
     work_file_stem_shortened |-> NoLimit]

Abs(n) == IF n < 0 THEN -n ELSE n

NormTolerateSigned(t) ==
    CASE t.kind = "bool" /\ t.lo = 1 -> Tol("tuple", -1, 1)
      [] t.kind = "bool" /\ t.lo = 0 -> Tol("tuple", 0, 0)
      [] t.kind = "int" -> Tol("tuple", -t.lo, t.lo)
      [] OTHER -> t

\* the match statement on tolerate_hour in check(): the normalised interval
NormTolerate(t) ==
    CASE t.kind = "bool" /\ t.lo = 1 -> Tol("tuple", -1, 1)
      [] t.kind = "bool" /\ t.lo = 0 -> Tol("tuple", 0, 0)
      [] t.kind = "int" -> Tol("tuple", -Abs(t.lo), Abs(t.lo))
      [] OTHER -> t

TolerateRejected(t) == t.kind \notin {"bool", "int", "tuple"}

ModeRejectedRenameReplace(c) == c.rename /\ c.replace_with_original

\* the match statement on rename, replace_with_original, delete in check()
ModeRejected(c) ==
    \/ c.rename /\ c.replace_with_original
    \/ c.rename /\ c.delete
    \/ c.replace_with_original /\ c.delete

SkipBiggerRejected(c) == c.skip_bigger /\ ~c.media_magic

InvertRejectedReplaceOnly(c) == c.invert_selection /\ c.replace_with_original

\* invert_selection with an option that needs the other file
InvertRejected(c) ==
    c.invert_selection /\ (c.replace_with_original \/ c.treat_bigger_as_original
                           \/ c.set_both_to_older_date)

IgnoreAllRejected(c) == c.ignore_name /\ c.ignore_date /\ c.ignore_size

ChecksumNeverRejected(c) == FALSE

\* checksum with ignore_size, tested in the branch check() takes without media_magic
ChecksumRejected(c) == ~c.media_magic /\ c.ignore_size /\ c.checksum

\* check() raises AssertionError
CheckRaises(c) ==
    \/ c.work_dir = ""
    \/ SkipBiggerRejected(c)
    \/ InvertRejected(c)
    \/ TolerateRejected(c.tolerate_hour)
    \/ IgnoreAllRejected(c)
    \/ ChecksumRejected(c)
    \/ ModeRejected(c)

\* the assignments check() makes to the fields before it raises or returns
CheckAssign(c) ==
    LET c1 == IF c.original_dir = "" THEN [c EXCEPT !.original_dir = c.work_dir] ELSE c
    IN  IF c1.work_dir = "" \/ SkipBiggerRejected(c1) \/ InvertRejected(c1)
           \/ TolerateRejected(c1.tolerate_hour)
        THEN c1
        ELSE [c1 EXCEPT !.tolerate_hour = NormTolerate(c1.tolerate_hour)]

----------------------------------------------------------------------------
(* The engine's mutable state, threaded through one call of _process_file:   *)
(* m.fs, m.changes, m.passed_away, the counters, m.metadata, m.fsops, and    *)
(* m.raised once an exception left the call.                                 *)

Exists(m, p) == p \in DOMAIN m.fs

\* Path.is_symlink(): False for a path that is not there
IsSymlink(m, p) == Exists(m, p) /\ m.fs[p].link

Raise(m) == [m EXCEPT !.raised = TRUE]

\* no "Interrupted" message was printed
NoOffset == -1

\* Image.DecompressionBombError leaves the call
RaiseBomb(m) == [m EXCEPT !.raised = TRUE, !.bomb = TRUE]

Note(text, arg) == [text |-> text, arg |-> arg]

\* change = {work_file: [], original: []}
NewChange(work_file, original) ==
    [work |-> work_file, orig |-> original, wnotes |-> <<>>, onotes |-> <<>>]

\* change[path].append(note)
AddNote(change, path, note) ==
    IF path = change.work
    THEN [change EXCEPT !.wnotes = Append(@, note)]
    ELSE [change EXCEPT !.onotes = Append(@, note)]

\* a file system call: the path written, the second path of the call, and (set by
\* the loop) the work file whose processing made the call
FsOp(op, path, other) == [op |-> op, path |-> path, other |-> other, work |-> NoPath]

Extend(f, k, v) == [x \in DOMAIN f \cup {k} |-> IF x = k THEN v ELSE f[x]]

Remove(f, k) == [x \in DOMAIN f \ {k} |-> f[x]]

\* self.metadata.pop(path, None)
Evict(m, path) == [m EXCEPT !.metadata = Remove(@, path)]

----------------------------------------------------------------------------
(* The plain matcher *)

DateSimilarStrict(c, w, o) ==
    \/ c.ignore_date
    \/ w.mtime = o.mtime
    \/ /\ c.tolerate_hour.kind = "tuple"
       /\ c.tolerate_hour.lo * HourT < w.mtime - o.mtime
       /\ w.mtime - o.mtime < c.tolerate_hour.hi * HourT

DateSimilarWithinHour(c, w, o) ==
    \/ c.ignore_date /\ Abs(w.mtime - o.mtime) <= HourT
    \/ w.mtime = o.mtime
    \/ /\ c.tolerate_hour.kind = "tuple"
       /\ c.tolerate_hour.lo * HourT <= w.mtime - o.mtime
       /\ w.mtime - o.mtime <= c.tolerate_hour.hi * HourT

\* the date half of the condition of _find_similar; (a - b)/3600 within [lo, hi]
DateSimilar(c, w, o) ==
    \/ c.ignore_date
    \/ w.mtime = o.mtime
    \/ /\ c.tolerate_hour.kind = "tuple"
       /\ c.tolerate_hour.lo * HourT <= w.mtime - o.mtime
       /\ w.mtime - o.mtime <= c.tolerate_hour.hi * HourT

SizeSimilarNoSize(c, w, o) == c.ignore_size \/ (~c.checksum \/ Crc(o) = Crc(w))

\* the size half of the condition of _find_similar
SizeSimilar(c, w, o) ==
    c.ignore_size \/ (w.size = o.size /\ (~c.checksum \/ Crc(o) = Crc(w)))

RECURSIVE FindSimilarFrom(_, _, _, _, _)
FindSimilarFrom(c, m, work_file, candidates, i) ==
    IF i > Len(candidates) THEN [original |-> NoPath, raised |-> FALSE]
    ELSE IF ~Exists(m, candidates[i]) \/ ~Exists(m, work_file)
         THEN [original |-> NoPath, raised |-> TRUE]
    ELSE IF /\ DateSimilar(c, m.fs[work_file], m.fs[candidates[i]])
            /\ SizeSimilar(c, m.fs[work_file], m.fs[candidates[i]])
         THEN [original |-> candidates[i], raised |-> FALSE]
    ELSE FindSimilarFrom(c, m, work_file, candidates, i + 1)

Found(m, r) == [m |-> IF r.raised THEN Raise(m) ELSE m, original |-> r.original]

\* _find_similar: the first candidate the condition accepts; stat() raises on a missing file
FindSimilar(c, m, work_file, candidates) ==
    Found(m, FindSimilarFrom(c, m, work_file, candidates, 1))

----------------------------------------------------------------------------
(* The media matcher *)

NoHash == -1

\* the hash of an image PIL refuses to open as a decompression bomb
BombHash == -2

\* the hash of a file PIL cannot identify as an image: Image.open raises an OSError
CorruptHash == -3

\* FileMetadata._stat = None
NoTime == -1

\* a FileMetadata: _average_hash, the st_mtime of _stat, _exif_times
Meta(h, t, e) == [hash |-> h, mtime |-> t, exif |-> e]

\* FileMetadata(file): nothing is loaded
NewMeta == Meta(NoHash, NoTime, {})

\* the average hash of the path is in the cache
HashCached(m, path) == path \in DOMAIN m.metadata /\ m.metadata[path].hash # NoHash

\* Image.open(path) returns an image
Opens(m, path) == Exists(m, path) /\ m.fs[path].hash \notin {BombHash, CorruptHash}

\* imagehash: the number of differing bits of two 2-bit hashes
HashDist(a, b) ==
    (IF a % 2 # b % 2 THEN 1 ELSE 0) + (IF a \div 2 # b \div 2 THEN 1 ELSE 0)

\* self.metadata[path]: keydefaultdict makes the entry on the first access
Touch(m, path) ==
    IF path \in DOMAIN m.metadata THEN m
    ELSE [m EXCEPT !.metadata = Extend(@, path, NewMeta)]

\* FileMetadata.average_hash can be read without an OSError: cached, or the file is
\* there and PIL identifies it
HashReadable(m, path) ==
    HashCached(m, path) \/ (Exists(m, path) /\ m.fs[path].hash # CorruptHash)

\* FileMetadata.average_hash: the cached value, computed on the first read
LoadHash(m, path) ==
    IF HashCached(m, path) THEN m
    ELSE [m EXCEPT !.metadata[path].hash = m.fs[path].hash]

\* the comparison of image_similar, both hashes loaded
HashesSimilar(c, m, orig_file, work_file) ==
    [m |-> m,
     similar |-> HashDist(m.metadata[orig_file].hash, m.metadata[work_file].hash)
                 <= c.accepted_img_hash_diff]

\* Image.open refuses the file: not an OSError, image_similar lets it pass
Bomb(m, path) == ~HashCached(m, path) /\ m.fs[path].hash = BombHash

\* image_similar once hash0 is read
WorkHashSimilar(c, m, orig_file, work_file) ==
    IF ~HashReadable(m, work_file) THEN [m |-> m, similar |-> FALSE]
    ELSE IF Bomb(m, work_file) THEN [m |-> RaiseBomb(m), similar |-> FALSE]
    ELSE HashesSimilar(c, LoadHash(m, work_file), orig_file, work_file)

\* the hash block of image_similar: [m, similar]; an OSError gives no similarity
OrigHashSimilar(c, m, orig_file, work_file) ==
    IF ~HashReadable(m, orig_file) THEN [m |-> m, similar |-> FALSE]
    ELSE IF Bomb(m, orig_file) THEN [m |-> RaiseBomb(m), similar |-> FALSE]
    ELSE WorkHashSimilar(c, LoadHash(m, orig_file), orig_file, work_file)

\* FileMetadata.exif_times: the cached set, read from the image while it is empty;
\* any exception of the reading gives no times
LoadExif(m, path) ==
    IF m.metadata[path].exif # {} THEN m
    ELSE [m EXCEPT !.metadata[path].exif = IF Opens(m, path) THEN m.fs[path].exif ELSE {}]

\* FileMetadata.stat can be read: cached, or the file is there
StatReadable(m, path) == m.metadata[path].mtime # NoTime \/ Exists(m, path)

\* FileMetadata.stat: the cached value, read on the first access
LoadStat(m, path) ==
    IF m.metadata[path].mtime # NoTime THEN m
    ELSE [m EXCEPT !.metadata[path].mtime = m.fs[path].mtime]

DateGateExclusive(m, orig_file, work_file) ==
    \/ Abs(m.metadata[work_file].mtime - m.metadata[orig_file].mtime) < HourT
    \/ \E t \in m.metadata[orig_file].exif : Abs(m.metadata[work_file].mtime - t) < HourT

\* the date comparison of image_similar: the work file's mtime is within 3600 s of
\* the original's mtime or of one of the original's EXIF times
DateGate(m, orig_file, work_file) ==
    \/ Abs(m.metadata[work_file].mtime - m.metadata[orig_file].mtime) <= HourT
    \/ \E t \in m.metadata[orig_file].exif : Abs(m.metadata[work_file].mtime - t) <= HourT

\* image_similar with img_compare_date once the three values are read
GatedSimilar(c, m, orig_file, work_file) ==
    IF DateGate(m, orig_file, work_file)
    THEN OrigHashSimilar(c, m, orig_file, work_file)
    ELSE [m |-> m, similar |-> FALSE]

\* image_similar with img_compare_date once file_time is read
WorkStatSimilar(c, m, orig_file, work_file) ==
    IF ~StatReadable(m, work_file) THEN [m |-> m, similar |-> FALSE]
    ELSE GatedSimilar(c, LoadStat(m, work_file), orig_file, work_file)

\* image_similar with img_compare_date once exif_times is read
OrigStatSimilar(c, m, orig_file, work_file) ==
    IF ~StatReadable(m, orig_file) THEN [m |-> m, similar |-> FALSE]
    ELSE WorkStatSimilar(c, LoadStat(m, orig_file), orig_file, work_file)

\* image_similar: [m, similar]
ImageSimilar(c, m, orig_file, work_file) ==
    IF c.img_compare_date
    THEN OrigStatSimilar(c, LoadExif(m, orig_file), orig_file, work_file)
    ELSE OrigHashSimilar(c, m, orig_file, work_file)

\* the video branch: get_frame_count of both files
VideoSimilar(c, m, orig_file, work_file) ==
    IF ~Exists(m, work_file) THEN [m |-> Raise(m), similar |-> FALSE]
    ELSE [m |-> m,
          similar |-> Abs(m.fs[work_file].frames - m.fs[orig_file].frames)
                      <= c.accepted_frame_delta]

\* one pass of the loop of _find_similar_media: [m, similar]
MediaSimilar(c, m, work_file, comparing_image, orig_file) ==
    IF comparing_image
    THEN ImageSimilar(c, Touch(m, orig_file), orig_file, work_file)
    ELSE VideoSimilar(c, m, orig_file, work_file)

RECURSIVE FindSimilarMediaFrom(_, _, _, _, _, _)
MediaLoop(c, r, work_file, comparing_image, candidates, i) ==
    IF r.m.raised THEN [m |-> r.m, original |-> NoPath]
    ELSE IF r.similar THEN [m |-> r.m, original |-> candidates[i]]
    ELSE FindSimilarMediaFrom(c, r.m, work_file, comparing_image, candidates, i + 1)

FindSimilarMediaFrom(c, m, work_file, comparing_image, candidates, i) ==
    IF i > Len(candidates) THEN [m |-> m, original |-> NoPath]
    ELSE IF ~Exists(m, candidates[i])
         THEN FindSimilarMediaFrom(c, m, work_file, comparing_image, candidates, i + 1)
    ELSE MediaLoop(c, MediaSimilar(c, m, work_file, comparing_image, candidates[i]),
                   work_file, comparing_image, candidates, i)

\* _find_similar_media
FindSimilarMedia(c, m, work_file, comparing_image, candidates) ==
    FindSimilarMediaFrom(c, Touch(m, work_file), work_file, comparing_image, candidates, 1)

----------------------------------------------------------------------------
(* The actions on a pair: st = [m, change] *)

St(m, change) == [m |-> m, change |-> change]

\* os.utime(path, (new_date,)*2)
Utime(m, path, new_date) ==
    [m EXCEPT !.fs[path].mtime = new_date,
              !.fsops = Append(@, FsOp("utime", path, path))]

\* _change_file_date
ChangeFileDate(c, st, path, old_date, new_date) ==
    LET change == AddNote(st.change, path,
                          Note(IF c.execute THEN "redating" ELSE "redatable",
                               <<old_date, new_date>>))
    IN  IF c.execute
        THEN St(Evict(Utime(st.m, path, new_date), path), change)
        ELSE St(st.m, change)

\* affected_file.rename(target_path)
RenameFile(m, path, target) ==
    [m EXCEPT !.fs = Extend(Remove(@, path), target, m.fs[path]),
              !.fsops = Append(@, FsOp("rename", path, target))]

RenameOverwrites(c, st, affected_file) ==
    IF ~(c.execute \/ c.bashify)
    THEN St(st.m, AddNote(st.change, affected_file, Note("renamable", <<>>)))
    ELSE LET target_path == WithMarker(affected_file)
         IN  IF c.execute /\ ~Exists(st.m, affected_file) THEN St(Raise(st.m), st.change)
             ELSE LET m1 == IF c.execute
                            THEN RenameFile(st.m, affected_file, target_path)
                            ELSE st.m
                      m2 == Evict([m1 EXCEPT !.passed_away = @ \cup {affected_file}],
                                  affected_file)
                  IN  St(m2, AddNote(st.change, affected_file,
                                     Note(IF c.execute THEN "renaming" ELSE "renamable", <<>>)))

\* _rename
Rename(c, st, affected_file) ==
    IF ~(c.execute \/ c.bashify)
    THEN St(st.m, AddNote(st.change, affected_file, Note("renamable", <<>>)))
    ELSE LET target_path == WithMarker(affected_file)
             collision == c.execute /\ Exists(st.m, target_path)
             performed == c.execute /\ ~collision
         IN  IF collision /\ c.fail_on_error THEN St(Raise(st.m), st.change)
             ELSE IF performed /\ ~Exists(st.m, affected_file) THEN St(Raise(st.m), st.change)
             ELSE LET m1 == IF performed
                            THEN RenameFile(st.m, affected_file, target_path)
                            ELSE st.m
                      m2 == Evict([m1 EXCEPT !.passed_away = @ \cup {affected_file}],
                                  affected_file)
                  IN  St(m2, AddNote(st.change, affected_file,
                                     Note(IF performed THEN "renaming" ELSE "renamable", <<>>)))

\* affected_file.unlink()
Unlink(m, path) ==
    [m EXCEPT !.fs = Remove(@, path), !.fsops = Append(@, FsOp("unlink", path, path))]

DeleteOnBashify(c, st, affected_file) ==
    IF ~(c.execute \/ c.bashify)
    THEN St(st.m, AddNote(st.change, affected_file, Note("deletable", <<>>)))
    ELSE IF ~Exists(st.m, affected_file) THEN St(Raise(st.m), st.change)
    ELSE St(Evict([Unlink(st.m, affected_file) EXCEPT !.passed_away = @ \cup {affected_file}],
                  affected_file),
            AddNote(st.change, affected_file, Note("deletable", <<>>)))

\* _delete
Delete(c, st, affected_file) ==
    IF ~(c.execute \/ c.bashify)
    THEN St(st.m, AddNote(st.change, affected_file, Note("deletable", <<>>)))
    ELSE IF c.execute /\ ~Exists(st.m, affected_file) THEN St(Raise(st.m), st.change)
    ELSE LET m1 == IF c.execute THEN Unlink(st.m, affected_file) ELSE st.m
             m2 == Evict([m1 EXCEPT !.passed_away = @ \cup {affected_file}], affected_file)
         IN  St(m2, AddNote(st.change, affected_file,
                            Note(IF c.execute THEN "deleting" ELSE "deletable", <<>>)))

\* shutil.copy2(src, dst): the content and the mtime; a link at dst is followed and
\* stays a link
Copy2(m, src, dst) ==
    [m EXCEPT !.fs = Extend(@, dst, [m.fs[src] EXCEPT !.link = IsSymlink(m, dst)]),
              !.fsops = Append(@, FsOp("copy2", dst, src))]

\* _replace_with_original
ReplaceWithOriginal(c, st, affected_file, other_file) ==
    LET same_name == NameOf(other_file) = NameOf(affected_file)
        target == IF same_name THEN affected_file
                  ELSE [other_file EXCEPT !.dir = affected_file.dir]
        done(m) == St(Evict(m, affected_file),
                      AddNote(st.change, affected_file,
                              Note(IF c.execute THEN "replacing" ELSE "replacable", <<>>)))
    IN  IF ~c.execute THEN done(st.m)
        ELSE IF ~Exists(st.m, other_file) \/ target = other_file
        THEN St(Raise(st.m), st.change)
        ELSE LET m1 == Copy2(st.m, other_file, target)
             IN  IF same_name THEN done(m1)
                 ELSE IF ~Exists(m1, affected_file) THEN St(Raise(m1), st.change)
                 ELSE done(Unlink(m1, affected_file))

----------------------------------------------------------------------------
(* The affect decision *)

RolesBiggerSwapped(c, m, work_file, original) ==
    LET swap == c.media_magic /\ m.fs[work_file].size > m.fs[original].size
    IN  [affected_file |-> IF swap THEN original ELSE work_file,
         other_file |-> IF swap THEN work_file ELSE original,
         change |-> NewChange(work_file, original),
         warning |-> NoPath,
         skip |-> FALSE]

RolesNotSmallerSwapped(c, m, work_file, original) ==
    LET bigger == c.media_magic /\ m.fs[work_file].size > m.fs[original].size
        swap == /\ c.media_magic /\ c.treat_bigger_as_original
                /\ m.fs[work_file].size >= m.fs[original].size
        size_warning == bigger /\ ~c.treat_bigger_as_original
        affected_file == IF swap THEN original ELSE work_file
        other_file == IF swap THEN work_file ELSE original
    IN  [affected_file |-> affected_file,
         other_file |-> other_file,
         change |-> IF size_warning
                    THEN AddNote(NewChange(work_file, original), work_file,
                                 Note("SIZE WARNING",
                                      <<m.fs[work_file].size - m.fs[original].size>>))
                    ELSE NewChange(work_file, original),
         warning |-> IF size_warning THEN work_file ELSE NoPath,
         skip |-> /\ c.media_magic
                  /\ c.skip_bigger
                  /\ m.fs[affected_file].size > m.fs[other_file].size]

RolesSkipBeforeSwap(c, m, work_file, original) ==
    LET bigger == c.media_magic /\ m.fs[work_file].size > m.fs[original].size
        swap == bigger /\ c.treat_bigger_as_original
        size_warning == bigger /\ ~c.treat_bigger_as_original
    IN  [affected_file |-> IF swap THEN original ELSE work_file,
         other_file |-> IF swap THEN work_file ELSE original,
         change |-> IF size_warning
                    THEN AddNote(NewChange(work_file, original), work_file,
                                 Note("SIZE WARNING",
                                      <<m.fs[work_file].size - m.fs[original].size>>))
                    ELSE NewChange(work_file, original),
         warning |-> IF size_warning THEN work_file ELSE NoPath,
         skip |-> c.media_magic /\ c.skip_bigger /\ bigger]

\* the media_magic block of _affect: the roles, the size warning and the skip
Roles(c, m, work_file, original) ==
    LET bigger == c.media_magic /\ m.fs[work_file].size > m.fs[original].size
        swap == bigger /\ c.treat_bigger_as_original
        size_warning == bigger /\ ~c.treat_bigger_as_original
        affected_file == IF swap THEN original ELSE work_file
        other_file == IF swap THEN work_file ELSE original
    IN  [affected_file |-> affected_file,
         other_file |-> other_file,
         change |-> IF size_warning
                    THEN AddNote(NewChange(work_file, original), work_file,
                                 Note("SIZE WARNING",
                                      <<m.fs[work_file].size - m.fs[original].size>>))
                    ELSE NewChange(work_file, original),
         warning |-> IF size_warning THEN work_file ELSE NoPath,
         skip |-> /\ c.media_magic
                  /\ c.skip_bigger
                  /\ m.fs[affected_file].size > m.fs[other_file].size]

DatesOfAffectedOnly(c, m, r) ==
    LET affected_date == m.fs[r.affected_file].mtime
        other_date == m.fs[r.other_file].mtime
        st == St(m, r.change)
    IN  IF c.set_both_to_older_date /\ affected_date # other_date
        THEN [st |-> ChangeFileDate(c, st, r.affected_file, affected_date, other_date),
              warning |-> r.warning]
        ELSE IF /\ ~c.set_both_to_older_date
                /\ other_date > affected_date
                /\ other_date - affected_date >= Hz
        THEN [st |-> St(m, AddNote(r.change, r.other_file,
                                   Note("DATE WARNING", <<other_date - affected_date>>))),
              warning |-> r.other_file]
        ELSE [st |-> st, warning |-> r.warning]

DatesWarnAnyNewer(c, m, r) ==
    LET affected_date == m.fs[r.affected_file].mtime
        other_date == m.fs[r.other_file].mtime
        st == St(m, r.change)
    IN  IF c.set_both_to_older_date /\ affected_date # other_date
        THEN [st |-> IF other_date < affected_date
                     THEN ChangeFileDate(c, st, r.affected_file, affected_date, other_date)
                     ELSE ChangeFileDate(c, st, r.other_file, other_date, affected_date),
              warning |-> r.warning]
        ELSE IF ~c.set_both_to_older_date /\ other_date > affected_date
        THEN [st |-> St(m, AddNote(r.change, r.other_file,
                                   Note("DATE WARNING", <<other_date - affected_date>>))),
              warning |-> r.other_file]
        ELSE [st |-> st, warning |-> r.warning]

\* the "setting date" match statement of _affect: [st, warning]
Dates(c, m, r) ==
    LET affected_date == m.fs[r.affected_file].mtime
        other_date == m.fs[r.other_file].mtime
        st == St(m, r.change)
    IN  IF c.set_both_to_older_date /\ affected_date # other_date
        THEN [st |-> IF other_date < affected_date
                     THEN ChangeFileDate(c, st, r.affected_file, affected_date, other_date)
                     ELSE ChangeFileDate(c, st, r.other_file, other_date, affected_date),
              warning |-> r.warning]
        ELSE IF /\ ~c.set_both_to_older_date
                /\ other_date > affected_date
                /\ other_date - affected_date >= Hz
        THEN [st |-> St(m, AddNote(r.change, r.other_file,
                                   Note("DATE WARNING", <<other_date - affected_date>>))),
              warning |-> r.other_file]
        ELSE [st |-> st, warning |-> r.warning]

IfRename(c, st, affected_file) ==
    IF c.rename THEN Rename(c, st, affected_file) ELSE st

IfDelete(c, st, affected_file) ==
    IF c.delete /\ ~st.m.raised THEN Delete(c, st, affected_file) ELSE st

IfReplace(c, st, affected_file, other_file) ==
    IF c.replace_with_original /\ ~st.m.raised
    THEN ReplaceWithOriginal(c, st, affected_file, other_file)
    ELSE st

\* the rename / delete / replace calls of _affect, each made unless an earlier one raised
OtherActions(c, st, affected_file, other_file) ==
    IfReplace(c, IfDelete(c, IfRename(c, st, affected_file), affected_file),
              affected_file, other_file)

\* the counters of _affect, incremented before the actions
Count(st, affected_file) ==
    St([st.m EXCEPT !.size_affected = @ + st.m.fs[affected_file].size,
                    !.affected_count = @ + 1],
       st.change)

ConcludeUncounted(st, warned) ==
    IF st.m.raised THEN st.m ELSE [st.m EXCEPT !.changes = Append(@, st.change)]

\* the end of _affect: the change is logged unless an action raised
Conclude(st, warned) ==
    IF st.m.raised THEN st.m
    ELSE [st.m EXCEPT !.changes = Append(@, st.change),
                      !.warning_count = IF warned THEN @ + 1 ELSE @]

\* the warning gate of _affect and what follows it
Gate(c, d, affected_file, other_file) ==
    IF d.warning # NoPath /\ ~c.neglect_warning
    THEN Conclude(St(d.st.m, AddNote(d.st.change, d.warning,
                                     Note("skipped on warning", <<>>))),
                  TRUE)
    ELSE Conclude(OtherActions(c, Count(d.st, affected_file), affected_file, other_file),
                  d.warning # NoPath)

\* _affect once both files are known to exist
AffectPair(c, m, r) ==
    IF r.skip THEN m ELSE Gate(c, Dates(c, m, r), r.affected_file, r.other_file)

\* _affect
Affect(c, m, work_file, original) ==
    IF work_file = original THEN m
    ELSE IF ~Exists(m, work_file) \/ ~Exists(m, original) THEN Raise(m)
    ELSE AffectPair(c, m, Roles(c, m, work_file, original))

----------------------------------------------------------------------------
(* One call of _process_file *)

\* stem.replace(" ", char)
RECURSIVE ReplaceSpace(_, _)
ReplaceSpace(s, char) ==
    IF s = <<>> THEN <<>>
    ELSE <<IF Head(s) = " " THEN char ELSE Head(s)>> \o ReplaceSpace(Tail(s), char)

Digits == {"0", "1", "2", "3", "4", "5", "6", "7", "8", "9"}

\* ending_counter.sub("", stem): a trailing "(", digits, ")" is cut off
StripCounter(s) ==
    LET starts == {i \in 1..(Len(s) - 2) :
                     /\ s[i] = "(" /\ s[Len(s)] = ")"
                     /\ \A j \in (i + 1)..(Len(s) - 1) : s[j] \in Digits}
    IN  IF starts = {} THEN s ELSE SubSeq(s, 1, (CHOOSE i \in starts : TRUE) - 1)

\* re.sub(strip_suffix + "$", "", stem), for a pattern of plain characters
StripSuffix(s, pattern) ==
    IF Len(pattern) <= Len(s) /\ SubSeq(s, Len(s) - Len(pattern) + 1, Len(s)) = pattern
    THEN SubSeq(s, 1, Len(s) - Len(pattern))
    ELSE s

\* stem[:work_file_stem_shortened]
Shortened(s, n) == IF n = NoLimit \/ n >= Len(s) THEN s ELSE SubSeq(s, 1, n)

\* stem.replace(" ", True) raises TypeError
SpaceRaises(c) == c.space2char = FlagSet

WorkStemSpaced(c, stem) ==
    IF c.space2char # "" THEN ReplaceSpace(stem, c.space2char) ELSE stem

WorkStemCounted(c, stem) == IF c.strip_end_counter THEN StripCounter(stem) ELSE stem

WorkStemStripped(c, stem) ==
    IF c.strip_suffix # <<>> THEN StripSuffix(stem, c.strip_suffix) ELSE stem

\* the stem after the name transformations of _process_file
WorkStem(c, work_file) ==
    LET stem == WorkStemStripped(c, WorkStemCounted(c, WorkStemSpaced(c, work_file.stem)))
    IN  IF c.casefold THEN CasefoldSeq(stem) ELSE stem

\* the key perform() files an original under
IndexKey(c, p) ==
    Shortened(IF c.casefold THEN CasefoldSeq(p.stem) ELSE p.stem, c.work_file_stem_shortened)

\* self._files_cache[stem] of the defaultdict
Bucket(index, stem) == IF stem \in DOMAIN index THEN index[stem] ELSE <<>>

\* _candidates_fact
CandidatesFact(c, m, work_file, list, index) ==
    LET Fresh(p) == work_file # p /\ p \notin m.passed_away
    IN  SelectSeq(IF c.ignore_name THEN list ELSE Bucket(index, WorkStem(c, work_file)),
                  Fresh)

\* the candidates of the media branch: images with images, anything else with videos
MediaCandidates(fact, work_file) ==
    LET comparing_image == LowerOf(work_file.ext) \in IMAGE_SUFFIXES
        SameClass(p) == LowerOf(p.ext) \in (IF comparing_image THEN IMAGE_SUFFIXES
                                            ELSE VIDEO_SUFFIXES)
    IN  SelectSeq(fact, SameClass)

\* the candidates of the plain branch: the same suffix
PlainCandidates(c, fact, work_file) ==
    LET SameSuffix(p) == IF c.casefold THEN LowerOf(p.ext) = LowerOf(work_file.ext)
                         ELSE p.ext = work_file.ext
    IN  SelectSeq(fact, SameSuffix)

\* a record of the history: the work file, how the call ended, its candidates,
\* the matcher's answer and the file handed to _affect
Last(work_file, outcome, candidates, original, other) ==
    [work |-> work_file, outcome |-> outcome, candidates |-> candidates,
     original |-> original, other |-> other]

Affected(m, work_file, candidates, original, other) ==
    [m |-> m,
     last |-> Last(work_file, IF m.raised THEN "raised" ELSE "affect",
                   candidates, original, other)]

\* the end of _process_file: what is done with the matcher's answer f = [m, original]
Decide(c, f, work_file, candidates) ==
    IF f.m.raised
    THEN [m |-> f.m,
          last |-> Last(work_file, IF f.m.bomb THEN "bomb" ELSE "raised",
                        candidates, NoPath, NoPath)]
    ELSE IF f.original # NoPath /\ ~c.invert_selection
    THEN Affected(Affect(c, f.m, work_file, f.original),
                  work_file, candidates, f.original, f.original)
    ELSE IF f.original = NoPath /\ c.invert_selection
    THEN Affected(Affect(c, f.m, work_file, DevNull),
                  work_file, candidates, f.original, DevNull)
    ELSE [m |-> IF Len(candidates) > 1
                THEN [f.m EXCEPT !.having_multiple_candidates =
                                    Extend(@, work_file, candidates)]
                ELSE f.m,
          last |-> Last(work_file, "none", candidates, f.original, NoPath)]

\* the media branch of _process_file
MatchMedia(c, m, work_file, candidates) ==
    Decide(c, FindSimilarMedia(c, m, work_file,
                               LowerOf(work_file.ext) \in IMAGE_SUFFIXES, candidates),
           work_file, candidates)

\* the plain branch of _process_file
MatchPlain(c, m, work_file, candidates) ==
    Decide(c, FindSimilar(c, m, work_file, candidates), work_file, candidates)

NeverProcessed(work_file) == FALSE

\* the first test of _process_file: this file has been already processed
AlreadyProcessed(work_file) == StartsWithMarker(work_file)

\* _process_file: [m, last]
ProcessFile(c, m, work_file, list, index) ==
    IF AlreadyProcessed(work_file)
    THEN [m |-> [m EXCEPT !.ignored_count = @ + 1],
          last |-> Last(work_file, "ignored", <<>>, NoPath, NoPath)]
    ELSE IF SpaceRaises(c)
    THEN [m |-> Raise(m), last |-> Last(work_file, "raised", <<>>, NoPath, NoPath)]
    ELSE IF IsSymlink(m, work_file)
    THEN [m |-> m, last |-> Last(work_file, "symlink", <<>>, NoPath, NoPath)]
    ELSE IF c.skip_empty /\ ~Exists(m, work_file)
    THEN [m |-> Raise(m), last |-> Last(work_file, "raised", <<>>, NoPath, NoPath)]
    ELSE IF c.skip_empty /\ m.fs[work_file].size = 0
    THEN [m |-> m, last |-> Last(work_file, "empty", <<>>, NoPath, NoPath)]
    ELSE IF c.media_magic
    THEN MatchMedia(c, m, work_file,
                    MediaCandidates(CandidatesFact(c, m, work_file, list, index), work_file))
    ELSE MatchPlain(c, m, work_file,
                    PlainCandidates(c, CandidatesFact(c, m, work_file, list, index),
                                    work_file))

----------------------------------------------------------------------------
(* The runs *)

Perms(S) ==
    {s \in [1..Cardinality(S) -> S] : \A i, j \in 1..Cardinality(S) : s[i] = s[j] => i = j}

OriginalsWithLinks(c, files) == {p \in DOMAIN files : p.dir \in OrigDirs(c)}

\* build_originals: the files below original_dir that are not symlinks
Originals(c, files) == {p \in DOMAIN files : p.dir \in OrigDirs(c) /\ ~files[p].link}

\* the files rglob finds below work_dir
WorkSet(files) == {p \in DOMAIN files : p.dir \in WorkDirs}

\* the _files_cache perform() builds: each bucket a set, iterated in the order `order`
BuildIndex(c, list, order) ==
    LET Listed(p) == \E i \in 1..Len(list) : list[i] = p
        keys == {IndexKey(c, list[i]) : i \in 1..Len(list)}
    IN  IF c.ignore_name THEN <<>>
        ELSE [k \in keys |->
                LET InBucket(p) == Listed(p) /\ IndexKey(c, p) = k
                IN  SelectSeq(order, InBucket)]

Engine ==
    [fs |-> fs, changes |-> changes, passed_away |-> passed_away,
     size_affected |-> size_affected, affected_count |-> affected_count,
     warning_count |-> warning_count, ignored_count |-> ignored_count,
     having_multiple_candidates |-> having_multiple_candidates,
     metadata |-> metadata, fsops |-> fsops, raised |-> FALSE, bomb |-> FALSE]

\* __post_init__ up to and including check()
Construct ==
    /\ pc = "new"
    /\ cfg' = CheckAssign(cfg)
    /\ pc' = IF CheckRaises(cfg) THEN "rejected" ELSE "checked"
    /\ changes' = <<>>
    /\ passed_away' = {}
    /\ size_affected' = 0
    /\ affected_count' = 0
    /\ warning_count' = 0
    /\ ignored_count' = 0
    /\ having_multiple_candidates' = <<>>
    /\ metadata' = <<>>
    /\ files_cache' = <<>>
    /\ UNCHANGED <<fs, fs0, run, build_cache, file_list, work_files,
                   idx, attempt, fsops, trace, loopvars>>

\* the listing keeps the files of an earlier listing in the order they had there
KeepsOrder(listing, earlier) ==
    \A i, j \in 1..Len(listing), k, l \in 1..Len(earlier) :
        (listing[i] = earlier[k] /\ listing[j] = earlier[l] /\ k < l) => i < j

\* images = [x for x in files if x.suffix.lower() in IMAGE_SUFFIXES]
Images(list) ==
    LET IsImage(p) == LowerOf(p.ext) \in IMAGE_SUFFIXES
    IN  SelectSeq(list, IsImage)

\* the three properties preload reads on the object o of the path
Loaded(files, o, path) ==
    Meta(IF o.hash # NoHash THEN o.hash ELSE files[path].hash,
         IF o.mtime # NoTime THEN o.mtime ELSE files[path].mtime,
         IF o.exif # {} THEN o.exif ELSE files[path].exif)

PreloadShared(files, o, path) == Loaded(files, o, path)

\* FileMetadata.preload(file) in a worker that handled the object o before:
\* o = cls(file) is a new object
Preload(files, o, path) == Loaded(files, NewMeta, path)

\* average_hash raises in the worker: the file is gone or PIL does not open it
PreloadRaises(files, path) ==
    path \notin DOMAIN files \/ files[path].hash \in {BombHash, CorruptHash}

\* the results of the workers that complete in the order done: path -> tuple
RECURSIVE Workers(_, _, _, _, _)
Workers(files, done, i, o, results) ==
    IF i > Len(done) THEN results
    ELSE IF PreloadRaises(files, done[i])
    THEN Workers(files, done, i + 1, o, results)
    ELSE Workers(files, done, i + 1, Preload(files, o, done[i]),
                 Extend(results, done[i], Preload(files, o, done[i])))

\* the loop over executor.map of preload_metadata: the results are taken in the
\* order of images, up to the first one that raised
RECURSIVE PreloadMerge(_, _, _, _)
PreloadMerge(images, results, i, cache) ==
    IF i > Len(images) \/ images[i] \notin DOMAIN results THEN cache
    ELSE PreloadMerge(images, results, i + 1, Extend(cache, images[i], results[images[i]]))

\* perform() calls preload_metadata
Preloads(c) == c.ignore_name /\ c.media_magic

\* preload_metadata(self.file_list): the cache after it, for one completion order
PreloadMetadata(files, list, done, cache) ==
    PreloadMerge(Images(list), Workers(files, done, 1, NewMeta, <<>>), 1, cache)

\* an exception of a worker leaves preload_metadata and perform()
PreloadFails(c, files, list) ==
    Preloads(c) /\ \E i \in 1..Len(list) :
        LowerOf(list[i].ext) \in IMAGE_SUFFIXES /\ PreloadRaises(files, list[i])

SetOf(s) == {s[i] : i \in 1..Len(s)}

\* perform() up to the loop, and the listing of the work files in _loop_files: the
\* loop iterates work_files[skip:], so it starts at the position skip + 1
Perform ==
    /\ pc = "checked"
    /\ \E list \in Perms(Originals(cfg, fs)), order \in Perms(Originals(cfg, fs)) :
          LET built == IF build_cache = <<>>
                       THEN [list |-> list, order |-> order]
                       ELSE build_cache[1]
          IN  /\ build_cache' = <<built>>
              /\ file_list' = built.list
              /\ files_cache' = BuildIndex(cfg, built.list, built.order)
              /\ pc' = IF PreloadFails(cfg, fs, built.list) THEN "crashed" ELSE "loop"
              /\ IF Preloads(cfg)
                 THEN \E done \in Perms(SetOf(Images(built.list))) :
                         metadata' = PreloadMetadata(fs, built.list, done, metadata)
                 ELSE UNCHANGED metadata
    /\ \E listing \in Perms(WorkSet(fs)) :
          /\ prior # <<>> => KeepsOrder(listing, prior[1].work_files)
          /\ work_files' = listing
    /\ idx' = cfg.skip + 1
    /\ attempt' = 0
    /\ bar_n' = 0
    /\ UNCHANGED <<cfg, fs, fs0, run, changes, passed_away,
                   size_affected, affected_count, warning_count, ignored_count,
                   having_multiple_candidates, fsops, trace,
                   faults, offset, sleeps, prior>>

\* _process_file is called for work_files[idx]; with fault, the environment fails
\* the first file access of the call (is_symlink) with an OSError
Call(fault) ==
    IF fault
    THEN [m |-> Raise(Engine),
          last |-> Last(work_files[idx], "raised", <<>>, NoPath, NoPath)]
    ELSE ProcessFile(cfg, Engine, work_files[idx], file_list, files_cache)

\* the faults the environment can make at this call
Faults == IF faults > 0 /\ ~AlreadyProcessed(work_files[idx]) THEN BOOLEAN ELSE {FALSE}

\* the engine after the call r = [m, last] of _process_file
Effects(r) ==
    /\ fs' = r.m.fs
    /\ changes' = r.m.changes
    /\ passed_away' = r.m.passed_away
    /\ size_affected' = r.m.size_affected
    /\ affected_count' = r.m.affected_count
    /\ warning_count' = r.m.warning_count
    /\ ignored_count' = r.m.ignored_count
    /\ having_multiple_candidates' = r.m.having_multiple_candidates
    /\ metadata' = r.m.metadata
    /\ fsops' = [i \in 1..Len(r.m.fsops) |->
                    IF i > Len(fsops) THEN [r.m.fsops[i] EXCEPT !.work = r.last.work]
                    ELSE fsops[i]]
    /\ trace' = Append(trace, r.last)

\* except Exception with fail_on_error: raise
Fatal(m) == m.raised /\ ~m.bomb /\ cfg.fail_on_error

\* except Exception without fail_on_error: sleep and continue
Retried(m) == m.raised /\ ~m.bomb /\ ~cfg.fail_on_error

\* sleep(1 * attempt)
Sleep == sleeps' = Append(sleeps, [work |-> work_files[idx], secs |-> 1 * attempt])

\* the for loop takes the next work file; tqdm counts the file and copies the count
\* to bar.n when it redraws the bar, which it does not do more than once per
\* mininterval
NextFile ==
    /\ idx' = idx + 1
    /\ attempt' = 0
    /\ \E redrawn \in BOOLEAN : bar_n' = IF redrawn THEN idx - cfg.skip ELSE bar_n

ContinueSix ==
    IF attempt < MaxAttempts
    THEN attempt' = attempt + 1 /\ UNCHANGED <<idx, bar_n>>
    ELSE NextFile

\* continue: the next attempt of range(5), or the next work file after the last
Continue ==
    IF attempt + 1 < MaxAttempts
    THEN attempt' = attempt + 1 /\ UNCHANGED <<idx, bar_n>>
    ELSE NextFile

\* where the loop goes after the call r: on an exception the run is aborted
\* (fail_on_error), or the loop sleeps and tries the file again unless this was the
\* last attempt; a DecompressionBombError and a return end the attempts
Commit(r) ==
    /\ Effects(r)
    /\ pc' = IF Fatal(r.m) THEN "aborted" ELSE "loop"
    /\ IF Fatal(r.m) THEN UNCHANGED <<idx, attempt, bar_n, sleeps>>
       ELSE IF Retried(r.m) THEN Sleep /\ Continue
       ELSE NextFile /\ UNCHANGED sleeps

\* one pass of the attempt loop of _loop_files
Attempt ==
    /\ pc = "loop"
    /\ idx <= Len(work_files)
    /\ \E fault \in Faults :
          /\ \E r \in {Call(fault)} : Commit(r)
          /\ faults' = IF fault THEN faults - 1 ELSE faults
    /\ UNCHANGED <<cfg, fs0, run, build_cache, file_list, files_cache, work_files,
                   offset, prior>>

\* the loop of _loop_files is over; tqdm sets bar.n to the number of files it gave
Finish ==
    /\ pc = "loop"
    /\ idx > Len(work_files)
    /\ pc' = "done"
    /\ bar_n' = IF Len(work_files) > cfg.skip THEN Len(work_files) - cfg.skip ELSE 0
    /\ UNCHANGED <<cfg, fs, fs0, run, build_cache, file_list, files_cache,
                   work_files, idx, attempt, changes, passed_away, size_affected,
                   affected_count, warning_count, ignored_count,
                   having_multiple_candidates, metadata, fsops, trace,
                   faults, offset, sleeps, prior>>

\* the program is run again on the same directories with the same configuration,
\* in the same process (build_originals cached) or in a new one
Rerun ==
    /\ pc = "done"
    /\ run < MaxRuns
    /\ run' = run + 1
    /\ pc' = "new"
    /\ fs0' = fs
    /\ \E same_process \in BOOLEAN :
          build_cache' = IF same_process THEN build_cache ELSE <<>>
    /\ fsops' = <<>>
    /\ trace' = <<>>
    /\ sleeps' = <<>>
    /\ UNCHANGED <<cfg, fs, file_list, files_cache, work_files, idx, attempt, changes,
                   passed_away, size_affected, affected_count, warning_count,
                   ignored_count, having_multiple_candidates, metadata,
                   faults, bar_n, offset, prior>>

(* The loop in smaller steps, for an interrupt between them *)

\* where the loop is after the call r, up to sleep()
Caught(r) ==
    /\ Effects(r)
    /\ pc' = IF Fatal(r.m) THEN "aborted" ELSE IF Retried(r.m) THEN "sleep" ELSE "loop"
    /\ IF Fatal(r.m) \/ Retried(r.m) THEN UNCHANGED <<idx, attempt, bar_n>>
       ELSE NextFile

\* the try statement of _loop_files up to sleep(): the call and its except clauses
Try ==
    /\ pc = "loop"
    /\ idx <= Len(work_files)
    /\ \E fault \in Faults :
          /\ \E r \in {Call(fault)} : Caught(r)
          /\ faults' = IF fault THEN faults - 1 ELSE faults
    /\ UNCHANGED <<cfg, fs0, run, build_cache, file_list, files_cache, work_files,
                   offset, sleeps, prior>>

\* sleep(1 * attempt) returns, and continue
Backoff ==
    /\ pc = "sleep"
    /\ Sleep
    /\ Continue
    /\ pc' = "loop"
    /\ UNCHANGED <<cfg, fs, fs0, run, build_cache, file_list, files_cache, work_files,
                   changes, passed_away, size_affected, affected_count, warning_count,
                   ignored_count, having_multiple_candidates, metadata, fsops, trace,
                   faults, offset, prior>>

\* KeyboardInterrupt inside _process_file, before the call changed anything: the
\* except clause of the try statement reports skip + bar.n and returns
InterruptProcess ==
    /\ pc = "loop"
    /\ idx <= Len(work_files)
    /\ pc' = "interrupted"
    /\ offset' = cfg.skip + bar_n
    /\ UNCHANGED <<cfg, fs, fs0, run, build_cache, file_list, files_cache, work_files,
                   idx, attempt, changes, passed_away, size_affected, affected_count,
                   warning_count, ignored_count, having_multiple_candidates, metadata,
                   fsops, trace, faults, bar_n, sleeps, prior>>

\* KeyboardInterrupt inside sleep(): the statement is in an except clause, so no
\* except clause of the try statement handles it and it leaves _loop_files
InterruptSleep ==
    /\ pc = "sleep"
    /\ pc' = "killed"
    /\ UNCHANGED <<cfg, fs, fs0, run, build_cache, file_list, files_cache, work_files,
                   idx, attempt, changes, passed_away, size_affected, affected_count,
                   warning_count, ignored_count, having_multiple_candidates, metadata,
                   fsops, trace, loopvars>>

\* the program is started again with skip set to the offset the message reported
Resume ==
    /\ pc = "interrupted"
    /\ run < MaxRuns
    /\ run' = run + 1
    /\ pc' = "new"
    /\ cfg' = [cfg EXCEPT !.skip = offset]
    /\ prior' = <<[work_files |-> work_files, idx |-> idx, skip |-> cfg.skip,
                   trace |-> trace, fs0 |-> fs0]>>
    /\ fs0' = fs
    /\ build_cache' = <<>>
    /\ fsops' = <<>>
    /\ trace' = <<>>
    /\ sleeps' = <<>>
    /\ offset' = NoOffset
    /\ UNCHANGED <<fs, file_list, files_cache, work_files, idx, attempt, changes,
                   passed_away, size_affected, affected_count, warning_count,
                   ignored_count, having_multiple_candidates, metadata,
                   faults, bar_n>>

Next == Construct \/ Perform \/ Attempt \/ Finish

NextTwice == Next \/ Rerun

NextSteps ==
    Construct \/ Perform \/ Try \/ Backoff \/ InterruptProcess \/ InterruptSleep
    \/ Finish \/ Resume

\* where the program is: the statement, the work file and the attempt
Position == <<pc, idx, attempt>>

\* the interpreter goes on where a statement is left to execute: there the
\* position is about to change
Running ==
    /\ pc \in {"new", "checked", "loop"}
    /\ pc' \in {"new", "checked", "rejected", "crashed", "loop", "done", "aborted"}
    /\ idx' \in 1..(Len(work_files) + 1)
    /\ attempt' \in 0..(MaxAttempts - 1)

\* the program is not stopped from outside: it runs until it has no statement left
Fairness == WF_Position(Running)

----------------------------------------------------------------------------
(* Initial states: a configuration, and files in the work and original dirs *)

\* the state before the first run, for the configurations Cfgs, the directory
\* contents Trees and the /dev/null mtimes NullTimes
InitEnv(Cfgs, Trees, NullTimes, FaultCounts) ==
    /\ cfg \in Cfgs
    /\ faults \in FaultCounts
    /\ bar_n = 0
    /\ offset = NoOffset
    /\ sleeps = <<>>
    /\ prior = <<>>
    /\ \E f \in Trees, t \in NullTimes : fs = Extend(f, DevNull, File(0, 0, t, 0, 0))
    /\ fs0 = fs
    /\ pc = "new"
    /\ run = 1
    /\ build_cache = <<>>
    /\ file_list = <<>>
    /\ files_cache = <<>>
    /\ work_files = <<>>
    /\ idx = 1
    /\ attempt = 0
    /\ changes = <<>>
    /\ passed_away = {}
    /\ size_affected = 0
    /\ affected_count = 0
    /\ warning_count = 0
    /\ ignored_count = 0
    /\ having_multiple_candidates = <<>>
    /\ metadata = <<>>
    /\ fsops = <<>>
    /\ trace = <<>>

\* the same, in an environment without transient errors
InitWith(Cfgs, Trees, NullTimes) == InitEnv(Cfgs, Trees, NullTimes, {0})

----------------------------------------------------------------------------
(* The inputs *)

\* the largest file size drawn as an input
MaxSize == 2

Merge(a, b) == [x \in DOMAIN a \cup DOMAIN b |-> IF x \in DOMAIN a THEN a[x] ELSE b[x]]

\* the directory contents with the files WorkFiles at the paths W and OrigFiles at O
Trees(W, WorkFiles, O, OrigFiles) ==
    {Merge(a, b) : a \in [W -> WorkFiles], b \in [O -> OrigFiles]}

Modes ==
    {[rename |-> r, delete |-> d, replace_with_original |-> p] :
        r \in BOOLEAN, d \in BOOLEAN, p \in BOOLEAN}

OneMode == {md \in Modes : ~(md.rename /\ md.delete) /\ ~(md.rename /\ md.replace_with_original)
                           /\ ~(md.delete /\ md.replace_with_original)}

WithMode(c, md) ==
    [c EXCEPT !.rename = md.rename, !.delete = md.delete,
              !.replace_with_original = md.replace_with_original]

a_jpg(d) == Path(d, <<"a">>, ".jpg")

\* sizes 1..MaxSize, two mtimes two seconds apart, one image hash
PlainFiles == {File(sz, 0, t, 0, 0) : sz \in 1..MaxSize, t \in {0, 2 * Hz}}

\* dry and executing runs of every mode over a pair of images, in two directories or in one
ActCfgs ==
    {WithMode([Default EXCEPT !.execute = ex, !.bashify = ba, !.original_dir = od,
                              !.media_magic = mm, !.set_both_to_older_date = sb,
                              !.treat_bigger_as_original = tb, !.neglect_warning = nw,
                              !.ignore_date = id], md) :
        ex \in BOOLEAN, ba \in BOOLEAN, od \in {"", "orig"}, mm \in BOOLEAN,
        sb \in BOOLEAN, tb \in BOOLEAN, nw \in BOOLEAN, id \in BOOLEAN, md \in OneMode}

ActTrees ==
    Trees({a_jpg("w1")}, PlainFiles, {a_jpg("o1")}, PlainFiles)
    \cup Trees({a_jpg("w1"), a_jpg("w2")}, PlainFiles, {}, PlainFiles)

Init == InitWith(ActCfgs, ActTrees, {0})

Spec == Init /\ [][Next]_vars

a_txt(d) == Path(d, <<"a">>, ".txt")

\* the work file alone, or with its original
InvertTrees ==
    Trees({a_txt("w1")}, PlainFiles, {a_txt("o1")}, PlainFiles)
    \cup Trees({a_txt("w1")}, PlainFiles, {}, PlainFiles)

\* executed renames with and without invert_selection
InvertCfgs ==
    {[Default EXCEPT !.execute = TRUE, !.rename = TRUE, !.invert_selection = iv,
                     !.neglect_warning = nw, !.media_magic = mm, !.ignore_date = id,
                     !.fail_on_error = fe] :
        iv \in BOOLEAN, nw \in BOOLEAN, mm \in BOOLEAN, id \in BOOLEAN, fe \in BOOLEAN}

\* /dev/null is as old as the oldest file, or three hours younger
InitInvert == InitWith(InvertCfgs, InvertTrees, {0, 3 * HourT})

SpecInvert == InitInvert /\ [][Next]_vars

\* every form of tolerate_hour: a bool, an integer, a pair of integers
TolInputs ==
    {TolFalse, TolTrue, Tol("float", 0, 0)}
    \cup {Tol("int", n, 0) : n \in -MaxTolerate..MaxTolerate}
    \cup {Tol("tuple", lo, hi) : lo \in -MaxTolerate..MaxTolerate,
                                 hi \in -MaxTolerate..MaxTolerate}

\* the mtime differences around zero, one hour and MaxTolerate hours
MatchTimes ==
    {0, 1, -1, HourT, -HourT, HourT + 1, HourT + Hz, -HourT - 1,
     MaxTolerate * HourT, -MaxTolerate * HourT,
     MaxTolerate * HourT + 1, -MaxTolerate * HourT - 1}

MatchCfgs ==
    {[Default EXCEPT !.execute = TRUE, !.rename = TRUE, !.neglect_warning = TRUE,
                     !.tolerate_hour = t, !.ignore_date = id, !.ignore_size = is,
                     !.checksum = cs] :
        t \in TolInputs, id \in BOOLEAN, is \in BOOLEAN, cs \in BOOLEAN}

MatchTrees ==
    Trees({a_txt("w1")},
          {File(sz, dt, t, 0, 0) : sz \in 1..MaxSize, dt \in 0..2, t \in MatchTimes},
          {a_txt("o1")}, {File(1, 0, 0, 0, 0)})

InitMatch == InitWith(MatchCfgs, MatchTrees, {0})

SpecMatch == InitMatch /\ [][Next]_vars

\* the default match settings, with and without checksum
DefaultCfgs ==
    {[Default EXCEPT !.execute = TRUE, !.rename = TRUE, !.neglect_warning = nw,
                     !.checksum = cs] : nw \in BOOLEAN, cs \in BOOLEAN}

DefaultFiles == {File(sz, dt, t, 0, 0) : sz \in 1..MaxSize, dt \in 0..2, t \in {0, 1, HourT}}

\* an original of the same name, of another stem, of another case, of another suffix
DefaultTrees ==
    UNION {Trees({a_txt("w1")}, DefaultFiles, {o}, DefaultFiles) :
             o \in {a_txt("o1"), Path("o1", <<"b">>, ".txt"), Path("o1", <<"A">>, ".txt"),
                    Path("o1", <<"a">>, ".jpg")}}

InitDefault == InitWith(DefaultCfgs, DefaultTrees, {0})

SpecDefault == InitDefault /\ [][Next]_vars

\* every combination of the options check() looks at
CheckCfgs ==
    {WithMode([Default EXCEPT !.execute = TRUE, !.skip_bigger = kb, !.media_magic = mm,
                              !.invert_selection = iv, !.treat_bigger_as_original = tb,
                              !.set_both_to_older_date = sb, !.ignore_name = nm,
                              !.ignore_date = id, !.ignore_size = is, !.checksum = cs,
                              !.tolerate_hour = t], md) :
        kb \in BOOLEAN, mm \in BOOLEAN, iv \in BOOLEAN, tb \in BOOLEAN, sb \in BOOLEAN,
        nm \in BOOLEAN, id \in BOOLEAN, is \in BOOLEAN, cs \in BOOLEAN,
        t \in {TolFalse, Tol("int", 1, 0), Tol("tuple", 0, 1), Tol("float", 0, 0)},
        md \in Modes}

CheckTrees ==
    Trees({a_jpg("w1")}, {File(sz, 0, t, 0, 0) : sz \in 1..MaxSize, t \in {0, 2 * Hz}},
          {a_jpg("o1")}, {File(sz, 0, 0, 0, 0) : sz \in 1..MaxSize})

InitCheck == InitWith(CheckCfgs, CheckTrees, {0})

SpecCheck == InitCheck /\ [][Next]_vars

\* the transient errors the environment makes in a run, at most
MaxFaults == 6

\* executed runs with and without fail_on_error, by the plain and the media matcher
RetryCfgs ==
    {WithMode([Default EXCEPT !.execute = TRUE, !.fail_on_error = fe, !.media_magic = mm],
              md) :
        fe \in BOOLEAN, mm \in BOOLEAN, md \in OneMode}

\* two work images of one original; any of the three may be a decompression bomb
RetryTrees ==
    Trees({a_jpg("w1"), a_jpg("w2")}, {File(1, 0, 0, h, 0) : h \in {0, BombHash}},
          {a_jpg("o1")}, {File(1, 0, 0, h, 0) : h \in {0, BombHash}})

InitRetry == InitEnv(RetryCfgs, RetryTrees, {0}, {0, 1, MaxFaults})

SpecRetry == InitRetry /\ [][Next]_vars /\ Fairness

b_txt(d) == Path(d, <<"b">>, ".txt")

\* executed runs of each mode that go on after an exception
StepsCfgs == {WithMode([Default EXCEPT !.execute = TRUE], md) : md \in OneMode}

\* two work files, each with its original
StepsTrees ==
    Trees({a_txt("w1"), b_txt("w1")}, {File(1, 0, 0, 0, 0)},
          {a_txt("o1"), b_txt("o1")}, {File(1, 0, 0, 0, 0)})

InitSteps == InitEnv(StepsCfgs, StepsTrees, {0}, {0, 1, 2})

SpecSteps == InitSteps /\ [][NextSteps]_vars

\* executed runs of each mode, repeated
TwiceCfgs ==
    {WithMode([Default EXCEPT !.execute = TRUE, !.original_dir = od, !.ignore_name = nm,
                              !.neglect_warning = nw], md) :
        od \in {"", "orig"}, nm \in BOOLEAN, nw \in BOOLEAN, md \in OneMode}

TwiceTrees ==
    Trees({a_txt("w1")}, PlainFiles, {a_txt("o1")}, PlainFiles)
    \cup Trees({a_txt("w1"), b_txt("w1")}, PlainFiles, {a_txt("o1")}, PlainFiles)
    \cup Trees({a_txt("w1"), a_txt("w2")}, PlainFiles, {}, PlainFiles)

InitTwice == InitWith(TwiceCfgs, TwiceTrees, {0})

SpecTwice == InitTwice /\ [][NextTwice]_vars

----------------------------------------------------------------------------
(* What the claims speak of *)

NotesOf(change) == change.wnotes \o change.onotes

TextsOf(change) == {NotesOf(change)[i].text : i \in 1..Len(NotesOf(change))}

PerformedForms == {"renaming", "deleting", "replacing", "redating"}

HypotheticalForms == {"renamable", "deletable", "replacable", "redatable"}

ActionForms == {"renaming", "deleting", "replacing", "renamable", "deletable", "replacable"}

WarningForms == {"SIZE WARNING", "DATE WARNING"}

Warned(change) == TextsOf(change) \cap WarningForms # {}

CountText(change, text) ==
    Cardinality({i \in 1..Len(NotesOf(change)) : NotesOf(change)[i].text = text})

\* the file system calls made while work_file was processed
OpsFor(work_file) == {i \in 1..Len(fsops) : fsops[i].work = work_file}

Disjoint(c) == c.original_dir # "" /\ c.original_dir # c.work_dir

----------------------------------------------------------------------------
\* C1: with execute=False no file system call is made, the files stay as they
\* were, and every annotation of the change log is of the hypothetical form
\* (renamable, deletable, replacable, redatable), never of the performed one.
C1_DryRun ==
    ~cfg.execute =>
        /\ fsops = <<>>
        /\ fs = fs0
        /\ \A i \in 1..Len(changes) : TextsOf(changes[i]) \cap PerformedForms = {}

C1_Witness ==
    /\ ~cfg.execute
    /\ pc = "done"
    /\ \E i \in 1..Len(changes) : {"redatable", "renamable"} \subseteq TextsOf(changes[i])

\* C2: a pair on which a warning was raised while neglect_warning=False sees no
\* file system call at all, gets exactly one 'skipped on warning' annotation and
\* no action annotation, and is not counted in affected_count.
C2_WarnedUntouched ==
    ~cfg.neglect_warning =>
        /\ \A i \in 1..Len(changes) :
              Warned(changes[i]) =>
                  /\ OpsFor(changes[i].work) = {}
                  /\ CountText(changes[i], "skipped on warning") = 1
                  /\ TextsOf(changes[i]) \cap ActionForms = {}
        /\ affected_count = Cardinality({i \in 1..Len(changes) : ~Warned(changes[i])})

----------------------------------------------------------------------------
\* C4 as claimed: the second run makes no file system call and logs no performed
\* action, and a work file bearing the marker is only counted as ignored.
C4_SecondRunIdle ==
    (run >= 2 /\ pc # "new") =>
        /\ fsops = <<>>
        /\ \A i \in 1..Len(changes) : TextsOf(changes[i]) \cap PerformedForms = {}
        /\ \A i \in 1..Len(trace) :
              StartsWithMarker(trace[i].work) => trace[i].outcome = "ignored"

\* C4 as amended: in every run, the step that processes a work file bearing the
\* marker adds one to ignored_count and changes nothing else: no file, no log
\* entry, no counter, no passed-away path; the file is never handed to a matcher.
C4_MarkedIgnored ==
    [][(pc = "loop" /\ idx <= Len(work_files) /\ StartsWithMarker(work_files[idx])) =>
          /\ ignored_count' = ignored_count + 1
          /\ fs' = fs
          /\ fsops' = fsops
          /\ changes' = changes
          /\ passed_away' = passed_away
          /\ affected_count' = affected_count
          /\ size_affected' = size_affected
          /\ warning_count' = warning_count
          /\ having_multiple_candidates' = having_multiple_candidates
          /\ trace'[Len(trace')].outcome = "ignored"
          /\ idx' = idx + 1]_vars

C4_Witness ==
    /\ run = 2
    /\ cfg.rename
    /\ ignored_count = 1
    /\ trace # <<>>
    /\ trace[Len(trace)].outcome = "ignored"
    /\ trace[Len(trace)].work = WithMarker(a_txt("w1"))
    /\ fsops = <<>>

----------------------------------------------------------------------------
Remediated(work_file) == \E i \in OpsFor(work_file) : fsops[i].op = "rename"

\* C5: in rename mode a work file without a match is renamed when
\* invert_selection is set and is not when it is off, and a work file with a match
\* is not renamed when invert_selection is set.
C5_InvertSelection ==
    pc = "done" =>
        \A i \in 1..Len(trace) :
            trace[i].outcome \in {"affect", "none"} =>
                /\ (trace[i].original = NoPath /\ cfg.invert_selection)
                       => Remediated(trace[i].work)
                /\ (trace[i].original = NoPath /\ ~cfg.invert_selection)
                       => ~Remediated(trace[i].work)
                /\ (trace[i].original # NoPath /\ cfg.invert_selection)
                       => ~Remediated(trace[i].work)

----------------------------------------------------------------------------
\* the pairs a matcher decided on: one candidate, no exception
Decided(t) == t.outcome \in {"affect", "none"} /\ Len(t.candidates) = 1

Delta(t) == fs0[t.work].mtime - fs0[t.candidates[1]].mtime

SameSize(t) == fs0[t.work].size = fs0[t.candidates[1]].size

WithinTolerance(t) ==
    /\ cfg.tolerate_hour.lo * Hour * Hz <= Delta(t)
    /\ Delta(t) <= cfg.tolerate_hour.hi * Hour * Hz

PlainDates(c) == ~c.media_magic /\ ~c.ignore_date /\ ~c.ignore_size /\ ~c.checksum

\* C6 as claimed: the pair matches if and only if the mtime difference lies in
\* [lo, hi] hours, both ends included, and the sizes are equal.
C6_ToleranceOnly ==
    PlainDates(cfg) =>
        \A i \in 1..Len(trace) :
            Decided(trace[i]) =>
                (trace[i].original # NoPath <=> (WithinTolerance(trace[i]) /\ SameSize(trace[i])))

\* C6 as amended: with ignore_date, ignore_size and checksum off, the pair matches
\* if and only if the sizes are equal and the mtimes are exactly equal or their
\* difference lies in [lo, hi] hours, both ends included.
C6_ToleranceOrEqual ==
    PlainDates(cfg) =>
        \A i \in 1..Len(trace) :
            Decided(trace[i]) =>
                (trace[i].original # NoPath
                    <=> ((Delta(trace[i]) = 0 \/ WithinTolerance(trace[i]))
                         /\ SameSize(trace[i])))

C6_Witness ==
    /\ PlainDates(cfg)
    /\ cfg.tolerate_hour = Tol("tuple", -1, 1)
    /\ pc = "done"
    /\ Len(trace) = 1
    /\ Decided(trace[1])
    /\ Delta(trace[1]) = Hour * Hz
    /\ trace[1].original = a_txt("o1")
    /\ Remediated(a_txt("w1"))

\* C7 as claimed: with ignore_date, equal sizes make the pair match whatever the
\* mtime difference.
C7_SizeSuffices ==
    (~cfg.media_magic /\ cfg.ignore_date) =>
        \A i \in 1..Len(trace) :
            (Decided(trace[i]) /\ SameSize(trace[i])) => trace[i].original # NoPath

SameCrc(t) == Crc(fs0[t.work]) = Crc(fs0[t.candidates[1]])

\* C7 as amended: with ignore_date, equal sizes, and equal CRC32 when checksum is
\* enabled, make the pair match whatever the mtime difference.
C7_SizeAndCrcSuffice ==
    (~cfg.media_magic /\ cfg.ignore_date) =>
        \A i \in 1..Len(trace) :
            (Decided(trace[i]) /\ SameSize(trace[i]) /\ (cfg.checksum => SameCrc(trace[i])))
                => trace[i].original # NoPath

C7_Witness ==
    /\ cfg.ignore_date
    /\ ~cfg.ignore_size
    /\ cfg.checksum
    /\ pc = "done"
    /\ Len(trace) = 1
    /\ Decided(trace[1])
    /\ Delta(trace[1]) = -MaxTolerate * Hour * Hz - 1
    /\ trace[1].original = a_txt("o1")
    /\ Remediated(a_txt("w1"))

----------------------------------------------------------------------------
DefaultMatch(c) ==
    /\ ~c.media_magic /\ ~c.ignore_name /\ ~c.ignore_date /\ ~c.ignore_size
    /\ ~c.casefold /\ ~c.invert_selection
    /\ c.tolerate_hour \in {TolFalse, Tol("tuple", 0, 0)}

Differs(w, o) == fs0[w].size # fs0[o].size \/ fs0[w].mtime # fs0[o].mtime

\* C8: under the default match settings a matched original has the stem, the
\* suffix, the size and the mtime of the work file, and its CRC32 when checksum is
\* enabled; a work file whose same-named originals all differ from it in size or
\* mtime stays as it was.
C8_DefaultExact ==
    DefaultMatch(cfg) =>
        \A i \in 1..Len(trace) :
            LET w == trace[i].work
                o == trace[i].original
            IN  /\ o # NoPath =>
                      /\ o.stem = w.stem
                      /\ o.ext = w.ext
                      /\ fs0[o].size = fs0[w].size
                      /\ fs0[o].mtime = fs0[w].mtime
                      /\ cfg.checksum => Crc(fs0[o]) = Crc(fs0[w])
                /\ (\A p \in Originals(cfg, fs0) : NameOf(p) = NameOf(w) => Differs(w, p))
                      => /\ w \in DOMAIN fs
                         /\ fs[w] = fs0[w]
                         /\ OpsFor(w) = {}
                         /\ changes = <<>>

C8_Witness ==
    /\ DefaultMatch(cfg)
    /\ cfg.checksum
    /\ pc = "done"
    /\ Len(trace) = 1
    /\ trace[1].original = a_txt("o1")
    /\ fs0[a_txt("o1")].data # fs0[a_txt("w1")].data
    /\ Remediated(a_txt("w1"))

----------------------------------------------------------------------------
\* the configurations C9 lists as rejected
ListedInvalid(c) ==
    \/ c.skip_bigger /\ ~c.media_magic
    \/ c.invert_selection /\ c.replace_with_original
    \/ c.invert_selection /\ c.treat_bigger_as_original
    \/ c.invert_selection /\ c.set_both_to_older_date
    \/ c.ignore_name /\ c.ignore_date /\ c.ignore_size
    \/ c.tolerate_hour.kind = "float"

\* C9: each of the listed configurations is rejected by the construction, and a
\* rejected construction has processed no work file, logged no change, counted
\* nothing and left every file as it was.
C9_RejectedUntouched ==
    /\ (pc # "new" /\ ListedInvalid(cfg)) => pc = "rejected"
    /\ pc = "rejected" =>
          /\ trace = <<>>
          /\ work_files = <<>>
          /\ changes = <<>>
          /\ fsops = <<>>
          /\ fs = fs0
          /\ affected_count = 0
          /\ size_affected = 0
          /\ warning_count = 0
          /\ ignored_count = 0
          /\ passed_away = {}

C9_Witness ==
    /\ pc = "rejected"
    /\ cfg.invert_selection
    /\ cfg.replace_with_original
    /\ ~cfg.rename
    /\ ~cfg.delete
    /\ ~cfg.skip_bigger
    /\ cfg.tolerate_hour = Tol("tuple", 0, 1)
    /\ fs = fs0

ModeCount(c) ==
    (IF c.rename THEN 1 ELSE 0) + (IF c.delete THEN 1 ELSE 0)
    + (IF c.replace_with_original THEN 1 ELSE 0)

ActionNotes(change) ==
    Cardinality({i \in 1..Len(NotesOf(change)) : NotesOf(change)[i].text \in ActionForms})

\* C10: a run that starts has at most one of rename, delete and
\* replace_with_original enabled, a configuration with more than one is rejected,
\* and every pair of the change log carries at most one action annotation.
C10_OneMode ==
    /\ pc \notin {"new", "rejected"} => ModeCount(cfg) <= 1
    /\ (pc # "new" /\ ModeCount(cfg) > 1) => pc = "rejected"
    /\ \A i \in 1..Len(changes) : ActionNotes(changes[i]) <= 1

C10_Witness ==
    /\ pc = "done"
    /\ cfg.delete
    /\ ModeCount(cfg) = 1
    /\ Len(changes) = 1
    /\ ActionNotes(changes[1]) = 1
    /\ a_jpg("w1") \notin DOMAIN fs

----------------------------------------------------------------------------
\* C11 as claimed: a configuration with checksum and ignore_size is rejected
\* whatever its other options are.
C11_ChecksumAlwaysRejected ==
    (pc # "new" /\ cfg.checksum /\ cfg.ignore_size) => pc = "rejected"

\* the other reasons check() has to reject a configuration
OtherwiseValid(c) ==
    /\ ~(c.skip_bigger /\ ~c.media_magic)
    /\ ~(c.invert_selection /\ (c.replace_with_original \/ c.treat_bigger_as_original
                                \/ c.set_both_to_older_date))
    /\ ~(c.ignore_name /\ c.ignore_date /\ c.ignore_size)
    /\ c.tolerate_hour.kind # "float"
    /\ ModeCount(c) <= 1

\* C11 as amended: a configuration with checksum and ignore_size is rejected
\* whenever media_magic is off; with media_magic on the two options do not make
\* check() reject, and a configuration with no other fault is accepted.
C11_ChecksumRejectedUnlessMedia ==
    /\ (pc # "new" /\ cfg.checksum /\ cfg.ignore_size /\ ~cfg.media_magic)
           => pc = "rejected"
    /\ (pc # "new" /\ cfg.checksum /\ cfg.ignore_size /\ cfg.media_magic
           /\ OtherwiseValid(cfg)) => pc # "rejected"

C11_Witness ==
    /\ pc = "rejected"
    /\ cfg.checksum
    /\ cfg.ignore_size
    /\ ~cfg.media_magic
    /\ OtherwiseValid(cfg)

----------------------------------------------------------------------------
\* the attempts made for a work file, and those an exception ended
Tries(w) == {i \in 1..Len(trace) : trace[i].work = w}

Failures(w) == {i \in Tries(w) : trace[i].outcome = "raised"}

\* the waits made for a work file, in seconds, in their order
Waits(w) ==
    LET Mine(s) == s.work = w
    IN  SelectSeq(sleeps, Mine)

\* every work file the loop has to visit has had its attempts
AllVisited ==
    \A k \in (cfg.skip + 1)..Len(work_files) :
        /\ Tries(work_files[k]) # {}
        /\ \/ trace[CHOOSE i \in Tries(work_files[k]) :
                        \A j \in Tries(work_files[k]) : j <= i].outcome # "raised"
           \/ Cardinality(Tries(work_files[k])) = 5

RetryBounded ==
    ~cfg.fail_on_error =>
        /\ \A i \in 1..Len(trace) :
              /\ Cardinality(Tries(trace[i].work)) <= 5
              /\ Len(Waits(trace[i].work)) = Cardinality(Failures(trace[i].work))
              /\ \A k \in 1..Len(Waits(trace[i].work)) :
                    Waits(trace[i].work)[k].secs = (k - 1) * 1
              /\ trace[i].outcome # "raised" =>
                    \A j \in Tries(trace[i].work) : j <= i
        /\ pc = "done" => AllVisited

\* C12: without fail_on_error a work file is attempted at most 5 times, the k-th
\* failed attempt is followed by a wait of k - 1 seconds (attempt * 1, attempts
\* counted from 0), an attempt that does not raise is the last one of its file,
\* after the fifth failure the loop goes on, and the loop comes to its end with
\* every work file attempted.
C12_BoundedRetry ==
    /\ []RetryBounded
    /\ (~cfg.fail_on_error /\ pc = "loop") ~> (pc = "done")

C12_Witness ==
    /\ ~cfg.fail_on_error
    /\ cfg.rename
    /\ pc = "done"
    /\ Len(work_files) = 2
    /\ Cardinality(Failures(work_files[1])) = 5
    /\ Cardinality(Tries(work_files[1])) = 5
    /\ Len(Waits(work_files[1])) = 5
    /\ Waits(work_files[1])[5].secs = 4
    /\ Cardinality(Tries(work_files[2])) = 2
    /\ Cardinality(Failures(work_files[2])) = 1
    /\ Remediated(work_files[2])

\* C13: with fail_on_error, an exception of any class that leaves the processing
\* of a work file ends the run: the attempt is the last one made and the run is
\* aborted.
C13_AnyExceptionAborts ==
    cfg.fail_on_error =>
        \A i \in 1..Len(trace) :
            trace[i].outcome \in {"raised", "bomb"} => (i = Len(trace) /\ pc = "aborted")

----------------------------------------------------------------------------
\* C14: an interrupt in the processing of a file or in the wait between two
\* attempts ends the run with the "Interrupted" message, and the offset the
\* message reports is the configured skip plus the number of work files the run
\* has processed.
C14_CleanStop ==
    pc \in {"interrupted", "killed"} =>
        /\ pc = "interrupted"
        /\ offset = cfg.skip + (idx - 1 - cfg.skip)

----------------------------------------------------------------------------
\* the work files the interrupted run had processed, and those it had not
ProcessedBefore ==
    {prior[1].work_files[k] : k \in (prior[1].skip + 1)..(prior[1].idx - 1)}

LeftBefore ==
    {prior[1].work_files[k] : k \in prior[1].idx..Len(prior[1].work_files)}

\* C15: a run resumed with skip set to the reported offset processes every work
\* file the interrupted run had not processed, and does not process again a file
\* the interrupted run had processed (it may meet its marked name and ignore it).
C15_ResumeCoversRest ==
    (prior # <<>> /\ pc = "done") =>
        /\ \A w \in LeftBefore : Tries(w) # {}
        /\ \A w \in ProcessedBefore :
              \A i \in 1..Len(trace) :
                  trace[i].work \in {w, WithMarker(w)} => trace[i].outcome = "ignored"

----------------------------------------------------------------------------
InSeq(p, s) == \E k \in 1..Len(s) : s[k] = p

\* C16: once a path is in passed_away, no later call of _process_file in the run
\* is made for it as the work file, and none has it among its candidates.
C16_PassedAwayLeftAlone ==
    [][(pc = "loop" /\ trace' # trace) =>
          \A p \in passed_away :
              /\ trace'[Len(trace')].work # p
              /\ ~InSeq(p, trace'[Len(trace')].candidates)]_vars

----------------------------------------------------------------------------
Suppressed(change) == "skipped on warning" \in TextsOf(change)

\* the file _affect counts for a logged pair, by the roles it had when the call began
CountedFile(change) == Roles(cfg, Engine, change.work, change.orig).affected_file

\* C17: every call of _process_file leaves affected_count and size_affected as they
\* were, unless it logs a pair whose remediation was not suppressed by an
\* unacknowledged warning; then affected_count grows by one and size_affected by the
\* byte size of that pair's affected file.
C17_CountersFollowPairs ==
    [][pc = "loop" =>
          /\ affected_count' >= affected_count
          /\ size_affected' >= size_affected
          /\ IF Len(changes') = Len(changes) + 1 /\ ~Suppressed(changes'[Len(changes')])
             THEN /\ affected_count' = affected_count + 1
                  /\ size_affected' = size_affected
                                      + fs[CountedFile(changes'[Len(changes')])].size
             ELSE /\ affected_count' = affected_count
                  /\ size_affected' = size_affected]_vars

----------------------------------------------------------------------------
\* executed renames of a work file with one or two originals of its name, with and
\* without invert_selection
InitMulti ==
    InitWith({[Default EXCEPT !.execute = TRUE, !.rename = TRUE, !.original_dir = "orig",
                              !.invert_selection = iv, !.neglect_warning = nw] :
                 iv \in BOOLEAN, nw \in BOOLEAN},
             Trees({a_txt("w1")}, PlainFiles, {a_txt("o1")}, PlainFiles)
             \cup Trees({a_txt("w1")}, PlainFiles, {a_txt("o1"), a_txt("o2")}, PlainFiles),
             {0})

SpecMulti == InitMulti /\ [][Next]_vars

Completed(t) == t.outcome \in {"affect", "none"}

Recorded(t) == t.work \in DOMAIN having_multiple_candidates

\* C18: a work file whose call of _process_file completed is recorded in
\* having_multiple_candidates if and only if it had at least two candidates and the
\* matcher found no match among them.
C18_AmbiguityRecorded ==
    \A i \in 1..Len(trace) :
        Completed(trace[i]) =>
            (Recorded(trace[i]) <=>
                (Len(trace[i].candidates) >= 2 /\ trace[i].original = NoPath))

----------------------------------------------------------------------------
SameContent(f, g) == f.data = g.data /\ f.size = g.size /\ f.mtime = g.mtime

\* the state after _replace_with_original ran for the pair r: the copy is where the
\* affected file was, under the kept file's name, and the kept file is as it was
RoundTrip(r, before, after) ==
    LET copy == [r.other_file EXCEPT !.dir = r.affected_file.dir]
    IN  /\ r.other_file \in DOMAIN after
        /\ after[r.other_file] = before[r.other_file]
        /\ copy \in DOMAIN after
        /\ SameContent(after[copy], after[r.other_file])
        /\ (copy # r.affected_file => r.affected_file \notin DOMAIN after)

\* C19: whenever _affect of an executing run runs _replace_with_original for a pair,
\* afterwards the affected file has the kept file's content and mtime, under the kept
\* file's name in the affected file's directory, the affected path of another name
\* is gone, and the kept file is unchanged.
C19_ReplaceRoundTrip ==
    [][(/\ pc = "loop"
        /\ cfg.execute /\ cfg.replace_with_original
        /\ affected_count' = affected_count + 1)
       => RoundTrip(Roles(cfg, Engine, trace'[Len(trace')].work, trace'[Len(trace')].other),
                    fs, fs')]_vars

----------------------------------------------------------------------------
\* a regular file or a link to a bigger file with another content
LinkFiles == {File(1, 0, 0, 0, 0), Symlink(File(2, 1, 0, 0, 0))}

\* executed runs of each mode over two work files and two originals, any of them a
\* symlink, in two directories or in one
InitLinks ==
    InitWith({WithMode([Default EXCEPT !.execute = TRUE, !.original_dir = od,
                                       !.ignore_name = nm], md) :
                 od \in {"", "orig"}, nm \in BOOLEAN, md \in OneMode},
             Trees({a_txt("w1"), b_txt("w1")}, LinkFiles,
                   {a_txt("o1"), b_txt("o1")}, LinkFiles),
             {0})

SpecLinks == InitLinks /\ [][Next]_vars

Links == {p \in DOMAIN fs0 : fs0[p].link}

\* the calls of _process_file for p all stopped at the symlink test
SkippedAsWork(p) ==
    \A i \in 1..Len(trace) :
        trace[i].work = p => (trace[i].outcome = "symlink" /\ trace[i].candidates = <<>>)

\* p was no call's candidate, match or kept file
NeverOffered(p) ==
    \A i \in 1..Len(trace) :
        /\ ~InSeq(p, trace[i].candidates)
        /\ trace[i].original # p
        /\ trace[i].other # p

\* C20 as claimed: a symlink keeps its path, content and mtime, is skipped
\* before matching as a work file, and is never listed as an original, offered as a
\* candidate or kept.
C20_SymlinksUntouched ==
    \A p \in Links :
        /\ p \in DOMAIN fs /\ fs[p] = fs0[p]
        /\ SkippedAsWork(p)
        /\ ~InSeq(p, file_list)
        /\ NeverOffered(p)

\* a copy was written to the path p, through the link there
WrittenThrough(p) ==
    \E k \in 1..Len(fsops) : fsops[k].op = "copy2" /\ fsops[k].path = p

\* the link itself was renamed, deleted or re-dated, or a file was renamed onto it
ActedOn(p) ==
    \E k \in 1..Len(fsops) :
        /\ fsops[k].op \in {"rename", "unlink", "utime"}
        /\ (fsops[k].path = p \/ fsops[k].other = p)

\* C20 as amended: a symlink stays a link at its path and is never renamed, deleted
\* or re-dated; as a work file it is skipped before matching; it is never listed as
\* an original, offered as a candidate or kept; and what it shows changes only when
\* replace_with_original copies a kept file of its name into its directory.
C20_SymlinksKept ==
    \A p \in Links :
        /\ p \in DOMAIN fs /\ fs[p].link
        /\ ~ActedOn(p)
        /\ (fs[p] = fs0[p] \/ (cfg.replace_with_original /\ WrittenThrough(p)))
        /\ SkippedAsWork(p)
        /\ ~InSeq(p, file_list)
        /\ NeverOffered(p)

\* a run ended that remediated a file, skipped a work symlink and had a symlink
\* below original_dir
C20_Witness ==
    /\ pc = "done"
    /\ fsops # <<>>
    /\ \E i \in 1..Len(trace) : trace[i].outcome = "symlink"
    /\ \E p \in Links : p \in OriginalsWithLinks(cfg, fs0) /\ p.dir = "o1"

----------------------------------------------------------------------------
\* the interval the claim gives for an accepted tolerate_hour
WholeHours(t) ==
    IF t = TolTrue THEN Tol("tuple", -1, 1)
    ELSE IF t = TolFalse THEN Tol("tuple", 0, 0)
    ELSE IF t.kind = "int" THEN Tol("tuple", -Abs(t.lo), Abs(t.lo))
    ELSE t

\* C21: check() rejects a tolerate_hour that is not whole hours and otherwise leaves
\* the interval [-1, 1] for True, [-|N|, |N|] for an integer N and the pair as given;
\* with the interval [0, 0] that False leaves, a pair compared by date matches only
\* with equal mtimes.
C21_TolerateNormalized ==
    /\ [][pc = "new" =>
            /\ (cfg.tolerate_hour.kind = "float" => pc' = "rejected")
            /\ (pc' = "checked" => cfg'.tolerate_hour = WholeHours(cfg.tolerate_hour))]_vars
    /\ [](pc # "new" /\ cfg.tolerate_hour = Tol("tuple", 0, 0) /\ ~cfg.ignore_date =>
            \A i \in 1..Len(trace) :
                (Decided(trace[i]) /\ trace[i].original # NoPath) => Delta(trace[i]) = 0)

\* a run under the interval [-MaxTolerate, MaxTolerate] matched a pair whose mtimes
\* are MaxTolerate hours apart
C21_Witness ==
    /\ pc = "done"
    /\ ~cfg.ignore_date
    /\ cfg.tolerate_hour = Tol("tuple", -MaxTolerate, MaxTolerate)
    /\ Len(trace) = 1
    /\ trace[1].original # NoPath
    /\ Delta(trace[1]) = -MaxTolerate * HourT

----------------------------------------------------------------------------
ActionTexts(notes) == {notes[i].text : i \in 1..Len(notes)} \cap ActionForms

\* the swap condition of the claim, on the sizes the pair had when it was handed over
SwapExpected(change) ==
    /\ cfg.treat_bigger_as_original
    /\ cfg.media_magic
    /\ fs[change.work].size > fs[change.orig].size

\* the rename, unlink and copy calls of the step all hit the file `affected`, the
\* copies reading the file `kept`
CallsHit(ops, affected, kept) ==
    \A k \in 1..Len(ops) :
        /\ ops[k].op \in {"rename", "unlink"} => ops[k].path = affected
        /\ ops[k].op = "copy2" => (ops[k].other = kept /\ ops[k].path.dir = affected.dir)

\* C22: the action annotations and the rename, delete and replace calls of a logged
\* pair go to the work file, and to the other file instead exactly when
\* treat_bigger_as_original and media_magic are on and the work file is strictly
\* larger.
C22_RolesSwapExactly ==
    [][(pc = "loop" /\ Len(changes') = Len(changes) + 1) =>
          IF SwapExpected(changes'[Len(changes')])
          THEN /\ ActionTexts(changes'[Len(changes')].wnotes) = {}
               /\ CallsHit(SubSeq(fsops', Len(fsops) + 1, Len(fsops')),
                           changes'[Len(changes')].orig, changes'[Len(changes')].work)
          ELSE /\ ActionTexts(changes'[Len(changes')].onotes) = {}
               /\ CallsHit(SubSeq(fsops', Len(fsops) + 1, Len(fsops')),
                           changes'[Len(changes')].work, changes'[Len(changes')].orig)]_vars

\* a run with the swap policy renamed the smaller original of a bigger work file
C22_Witness ==
    /\ pc = "done"
    /\ cfg.treat_bigger_as_original /\ cfg.media_magic
    /\ fs0[a_jpg("w1")].size > fs0[a_jpg("o1")].size
    /\ \E i \in 1..Len(fsops) : fsops[i].op = "rename" /\ fsops[i].path = a_jpg("o1")
    /\ a_jpg("w1") \in DOMAIN fs

----------------------------------------------------------------------------
\* the call of _process_file that just ended found a match and handed it to _affect
Handed(t) == t.outcome = "affect" /\ t.original # NoPath /\ t.other = t.original

SizeNote(t) == Note("SIZE WARNING", <<fs[t.work].size - fs[t.other].size>>)

BiggerWorkHanded(t) ==
    /\ Handed(t)
    /\ ~cfg.treat_bigger_as_original
    /\ fs[t.work].size > fs[t.other].size

----------------------------------------------------------------------------
\* the file the claim calls affected: the other file after a swap, else the work file
FinalAffected(t) ==
    IF cfg.treat_bigger_as_original /\ cfg.media_magic /\ fs[t.work].size > fs[t.other].size
    THEN t.other ELSE t.work

FinalKept(t) == IF FinalAffected(t) = t.work THEN t.other ELSE t.work

\* C24: with skip_bigger, a matched pair handed to _affect whose affected file, by
\* the roles after the swap, is larger than the kept file sees no file system call,
\* no change of a file and no counter increment; a pair whose affected file is not
\* larger after the swap is not skipped but logged.
C24_SkipBiggerFinalRoles ==
    [][(/\ pc = "loop" /\ cfg.skip_bigger
        /\ trace' # trace
        /\ Handed(trace'[Len(trace')]))
       => IF fs[FinalAffected(trace'[Len(trace')])].size
               > fs[FinalKept(trace'[Len(trace')])].size
          THEN /\ fsops' = fsops /\ fs' = fs
               /\ "redating" \notin UNION {TextsOf(changes'[i]) : i \in 1..Len(changes')}
               /\ affected_count' = affected_count
               /\ size_affected' = size_affected
          ELSE Len(changes') = Len(changes) + 1]_vars

\* a run with skip_bigger skipped a bigger work file that set_both_to_older_date
\* would have re-dated and a rename would have renamed
C24_Witness ==
    /\ pc = "done"
    /\ cfg.skip_bigger /\ cfg.set_both_to_older_date /\ cfg.rename
    /\ ~cfg.treat_bigger_as_original
    /\ Len(trace) = 1 /\ trace[1].outcome = "affect"
    /\ fs0[a_jpg("w1")].size > fs0[a_jpg("o1")].size
    /\ fs0[a_jpg("w1")].mtime > fs0[a_jpg("o1")].mtime
    /\ fs = fs0

----------------------------------------------------------------------------
Older(a, b) == IF a < b THEN a ELSE b

\* the pair's file of the newer mtime
NewerOf(t, files) ==
    IF files[t.work].mtime > files[t.other].mtime THEN t.work ELSE t.other

\* where the file of the path p is after the step: at p, or at p with the marker
\* when it was renamed
DatesNow(p, files) ==
    {files[q].mtime : q \in {p, WithMarker(p)} \cap DOMAIN files}

UtimesOf(ops) == {ops[k].path : k \in {j \in 1..Len(ops) : ops[j].op = "utime"}}

----------------------------------------------------------------------------
NoteTexts(notes) == {notes[i].text : i \in 1..Len(notes)}

\* the kept file of a logged pair of plain files is newer by a second or more
KeptNewerBySecond(change) == fs0[change.orig].mtime - fs0[change.work].mtime >= Hz

----------------------------------------------------------------------------
\* runs of each mode, executed, printed as a script or only simulated, over two work
\* files of which the first may already have a marked namesake beside it
InitClash ==
    InitWith({WithMode([Default EXCEPT !.execute = ex, !.bashify = ba, !.fail_on_error = fe,
                                       !.set_both_to_older_date = sb, !.ignore_date = TRUE],
                       md) :
                 ex \in BOOLEAN, ba \in BOOLEAN, fe \in BOOLEAN, sb \in BOOLEAN,
                 md \in OneMode},
             UNION {Trees({a_txt("w1"), b_txt("w1")} \cup marked,
                          {File(1, 0, t, 0, 0) : t \in {0, 2 * Hz}},
                          {a_txt("o1"), b_txt("o1")}, {File(1, 0, 0, 0, 0)}) :
                      marked \in {{}, {WithMarker(a_txt("w1"))}}},
             {0})

SpecClash == InitClash /\ [][Next]_vars

\* the work file of the call that just ended was matched, and the marked name it
\* would be renamed to is taken
Collided(t) ==
    /\ cfg.execute /\ cfg.rename
    /\ t.original # NoPath
    /\ WithMarker(t.work) \in DOMAIN fs

\* C27: on a rename collision in execute mode the affected file stays under its name
\* and the file of the marked name stays as it was; with fail_on_error the run
\* aborts, otherwise the pair is logged without a rename but with its other
\* annotations, and the loop goes on to the next work file.
C27_CollisionSkipsRename ==
    [][(pc = "loop" /\ trace' # trace /\ Collided(trace'[Len(trace')])) =>
          /\ trace'[Len(trace')].work \in DOMAIN fs'
          /\ fs'[WithMarker(trace'[Len(trace')].work)] = fs[WithMarker(trace'[Len(trace')].work)]
          /\ \A k \in (Len(fsops) + 1)..Len(fsops') : fsops'[k].op # "rename"
          /\ IF cfg.fail_on_error
             THEN pc' = "aborted"
             ELSE /\ pc' = "loop" /\ idx' = idx + 1
                  /\ Len(changes') = Len(changes) + 1
                  /\ "renaming" \notin TextsOf(changes'[Len(changes')])
                  /\ (cfg.set_both_to_older_date
                      /\ fs[trace'[Len(trace')].work].mtime # fs[trace'[Len(trace')].other].mtime)
                     => "redating" \in TextsOf(changes'[Len(changes')])]_vars

\* a run left the work file whose marked name was taken, logged its re-dating, and
\* renamed the work file after it
C27_Witness ==
    /\ pc = "done"
    /\ cfg.execute /\ cfg.rename
    /\ WithMarker(a_txt("w1")) \in DOMAIN fs0
    /\ a_txt("w1") \in DOMAIN fs
    /\ work_files[1] = a_txt("w1")
    /\ Len(changes) = 2
    /\ "redating" \in TextsOf(changes[1])
    /\ \E i \in 1..Len(fsops) : fsops[i].op = "rename" /\ fsops[i].path = b_txt("w1")

----------------------------------------------------------------------------
\* the path was renamed or deleted by a file system call of the run
Gone(p) ==
    \E k \in 1..Len(fsops) : fsops[k].op \in {"rename", "unlink"} /\ fsops[k].path = p

\* C28: every path in passed_away was renamed or deleted by the run; none is there
\* after a rename skipped on a collision or after an action that was only simulated.
C28_PassedAwayOnlyGone ==
    \A p \in passed_away : Gone(p)

----------------------------------------------------------------------------
\* a limit of the stem length, as for the names Google shortens
MaxStem == 2

\* executed renames under every combination of the name transformations, over a work
\* file and an original whose names are equal or differ by a space, a counter, an
\* ending, the case or the length
InitNames ==
    InitWith({[Default EXCEPT !.execute = TRUE, !.rename = TRUE, !.space2char = sp,
                              !.strip_end_counter = sc, !.strip_suffix = ss,
                              !.casefold = cf, !.work_file_stem_shortened = sh] :
                 sp \in {"", "_", FlagSet}, sc \in BOOLEAN, ss \in {<<>>, <<"-", "e">>},
                 cf \in BOOLEAN, sh \in {NoLimit, MaxStem}},
             UNION {Trees({Path("w1", w, ".txt")}, {File(1, 0, 0, 0, 0)},
                          {Path("o1", o, ".txt")}, {File(1, 0, 0, 0, 0)}) :
                      w \in {<<"a", "b">>, <<"a", " ", "b">>, <<"a", "b", "(", "1", ")">>,
                             <<"a", "b", "-", "e">>, <<"A", "b">>, <<"a", "b", "c">>},
                      o \in {<<"a", "b">>, <<"a", "_", "b">>, <<"a", "b", "c">>}},
             {0})

SpecNames == InitNames /\ [][Next]_vars

\* the comparison key as claimed: spaces, counter, ending, case, length, in this order
ComparisonKey(c, stem) ==
    LET stripped == WorkStemStripped(c, WorkStemCounted(c, WorkStemSpaced(c, stem)))
    IN  Shortened(IF c.casefold THEN CasefoldSeq(stripped) ELSE stripped,
                  c.work_file_stem_shortened)

\* C29: the candidates of every work file are the listed originals of its suffix
\* filed under the work file's comparison key: its stem after the space, counter,
\* ending and case transforms and the truncation.
C29_LookupByFullKey ==
    \A i \in 1..Len(trace) :
        Completed(trace[i]) =>
            \A k \in 1..Len(file_list) :
                InSeq(file_list[k], trace[i].candidates)
                    <=> /\ IndexKey(cfg, file_list[k]) = ComparisonKey(cfg, trace[i].work.stem)
                        /\ file_list[k].ext = trace[i].work.ext
                        /\ file_list[k] # trace[i].work

----------------------------------------------------------------------------
\* the condition of _find_similar on the files as they were before the run
Fits(w, p) == DateSimilar(cfg, fs0[w], fs0[p]) /\ SizeSimilar(cfg, fs0[w], fs0[p])

\* the positions in the sequence `order` of the candidates that fit the work file
FittingAt(t, order) ==
    {k \in 1..Len(order) : InSeq(order[k], t.candidates) /\ Fits(t.work, order[k])}

First(S) == CHOOSE k \in S : \A j \in S : k <= j

\* C30: the original returned for a work file is the fitting candidate that was
\* inserted first, in the order of file_list from which the index is filled; without
\* a fitting candidate, and so without any candidate, there is no match.
C30_FirstInsertedWins ==
    \A i \in 1..Len(trace) :
        Completed(trace[i]) =>
            IF FittingAt(trace[i], file_list) = {}
            THEN trace[i].original = NoPath
            ELSE trace[i].original = file_list[First(FittingAt(trace[i], file_list))]

----------------------------------------------------------------------------
(* The media strategy and the kinds of files *)

a_mp4(d) == Path(d, <<"a">>, ".mp4")

\* a text file and an image in the work directory, a video and an image among the
\* originals; cv2 counts no frames in a file that is no video
InitKinds ==
    InitWith({[Default EXCEPT !.execute = TRUE, !.rename = TRUE, !.original_dir = "orig",
                              !.media_magic = TRUE, !.neglect_warning = TRUE,
                              !.invert_selection = iv, !.ignore_name = ig] :
                 iv \in BOOLEAN, ig \in BOOLEAN},
             {Merge(t, v) :
                 t \in Trees({a_txt("w1")}, {File(1, 0, 0, 0, 0)},
                             {a_mp4("o1")}, {File(1, 0, 0, 0, fr) : fr \in {0, 1, 5}}),
                 v \in Trees({a_jpg("w1")}, {File(1, 0, 0, h, 0) : h \in {0, 3}},
                             {a_jpg("o1")}, {File(1, 0, 0, h, 0) : h \in {0, 3}})},
             {0})

SpecKinds == InitKinds /\ [][Next]_vars

ImageFile(p) == LowerOf(p.ext) \in IMAGE_SUFFIXES

VideoFile(p) == LowerOf(p.ext) \in VIDEO_SUFFIXES

\* the matcher's answer for the entry pairs two images or two videos
SameMediaClass(t) ==
    \/ ImageFile(t.work) /\ ImageFile(t.original)
    \/ VideoFile(t.work) /\ VideoFile(t.original)

\* C31: under the media strategy every matched pair consists of two images or of
\* two videos, and a work file whose suffix is neither an image nor a video suffix
\* is never matched and never affected
C31_OnlyMediaConsidered ==
    cfg.media_magic =>
        \A i \in 1..Len(trace) :
            /\ trace[i].original # NoPath => SameMediaClass(trace[i])
            /\ ~ImageFile(trace[i].work) /\ ~VideoFile(trace[i].work) =>
                  trace[i].original = NoPath /\ trace[i].outcome # "affect"

\* the half of C31 that holds: an image or a video is only paired with its own kind
C31_MediaPairedInKind ==
    cfg.media_magic =>
        \A i \in 1..Len(trace) :
            (ImageFile(trace[i].work) \/ VideoFile(trace[i].work))
            /\ trace[i].original # NoPath => SameMediaClass(trace[i])

----------------------------------------------------------------------------
(* Image similarity and the date gate *)

\* a work image and an original of the same name: hashes zero, one or two bits
\* apart, mtimes an hour, an hour and a tick or three hours apart, with and
\* without an EXIF time that is the other file's mtime
InitDated ==
    InitWith({[Default EXCEPT !.execute = TRUE, !.rename = TRUE, !.original_dir = "orig",
                              !.media_magic = TRUE, !.neglect_warning = TRUE,
                              !.img_compare_date = dt, !.ignore_name = ig] :
                 dt \in BOOLEAN, ig \in BOOLEAN},
             Trees({a_jpg("w1")},
                   {WithExif(File(1, 0, t, h, 0), E) :
                       t \in {HourT, HourT + 1, 3 * HourT}, h \in {0, 1, 3}, E \in {{}, {0}}},
                   {a_jpg("o1")},
                   {WithExif(File(1, 0, 0, 0, 0), E) : E \in {{}, {3 * HourT}}}),
             {0})

SpecDated == InitDated /\ [][Next]_vars

\* the timestamps of a file: its mtime and its EXIF capture times
Stamps(f) == {f.mtime} \cup f.exif

\* a timestamp of the one file is within 3600 s of a timestamp of the other
StampsWithinHour(w, o) == \E a \in Stamps(w), b \in Stamps(o) : Abs(a - b) <= HourT

\* the work file's mtime is within 3600 s of a timestamp of the original
MtimeWithinHour(w, o) == \E b \in Stamps(o) : Abs(w.mtime - b) <= HourT

\* the step compared the image work file of the entry t with its only candidate,
\* and both images can be decoded
ComparedOnce(t) ==
    /\ cfg.media_magic /\ ImageFile(t.work) /\ Len(t.candidates) = 1
    /\ t.work \in DOMAIN fs /\ t.candidates[1] \in DOMAIN fs
    /\ fs[t.work].hash >= 0 /\ fs[t.candidates[1]].hash >= 0

\* the hashes the cache holds after the step were there before it
NoHashComputed(t) ==
    \A p \in {t.work, t.candidates[1]} :
        p \in DOMAIN metadata' /\ metadata'[p].hash # NoHash =>
            p \in DOMAIN metadata /\ metadata[p].hash = metadata'[p].hash

\* the entry is as the claim's rule with the date gate Near(w, o) says
SimilarIff(t, Near(_, _)) ==
    /\ t.original = t.candidates[1] <=>
          /\ HashDist(fs[t.candidates[1]].hash, fs[t.work].hash)
                <= cfg.accepted_img_hash_diff
          /\ cfg.img_compare_date => Near(fs[t.work], fs[t.candidates[1]])
    /\ cfg.img_compare_date /\ ~Near(fs[t.work], fs[t.candidates[1]]) => NoHashComputed(t)

\* C32: two images are similar iff their hash distance is at most
\* accepted_img_hash_diff and, with img_compare_date, the two files' mtimes or any
\* EXIF capture time are within 3600 s of each other; when the date gate fails no
\* hash is computed and the result is non-similar
C32_ImageSimilarIff ==
    [][(pc = "loop" /\ trace' # trace /\ ComparedOnce(trace'[Len(trace')]))
        => SimilarIff(trace'[Len(trace')], StampsWithinHour)]_vars

\* what holds of C32: the rule with the gate image_similar computes, which never
\* reads the work file's EXIF times
C32_SimilarByWorkMtime ==
    [][(pc = "loop" /\ trace' # trace /\ ComparedOnce(trace'[Len(trace')]))
        => SimilarIff(trace'[Len(trace')], MtimeWithinHour)]_vars

----------------------------------------------------------------------------
(* Images that cannot be decoded *)

\* a work image and two originals of its name; each image is sound, a file PIL
\* cannot identify, or a decompression bomb
InitCorrupt ==
    InitWith({[Default EXCEPT !.execute = TRUE, !.rename = TRUE, !.original_dir = "orig",
                              !.media_magic = TRUE, !.neglect_warning = TRUE,
                              !.fail_on_error = fe, !.invert_selection = iv] :
                 fe \in BOOLEAN, iv \in BOOLEAN},
             Trees({a_jpg("w1")}, {File(1, 0, 0, h, 0) : h \in {0, CorruptHash, BombHash}},
                   {a_jpg("o1"), a_jpg("o2")},
                   {File(1, 0, 0, h, 0) : h \in {0, 3, CorruptHash, BombHash}}),
             {0})

SpecCorrupt == InitCorrupt /\ [][Next]_vars

\* decoding the image raises
Undecodable(p) == fs[p].hash \in {CorruptHash, BombHash}

\* the candidate is sound and its hash is near the hash of the sound work file
SoundMatch(w, p) ==
    /\ ~Undecodable(w) /\ ~Undecodable(p)
    /\ HashDist(fs[p].hash, fs[w].hash) <= cfg.accepted_img_hash_diff

\* the first candidate of the entry that matches when every candidate whose
\* comparison fails counts as non-matching
FirstSound(t) ==
    IF \E i \in 1..Len(t.candidates) : SoundMatch(t.work, t.candidates[i])
    THEN t.candidates[CHOOSE i \in 1..Len(t.candidates) :
                         /\ SoundMatch(t.work, t.candidates[i])
                         /\ \A j \in 1..(i - 1) : ~SoundMatch(t.work, t.candidates[j])]
    ELSE NoPath

\* a comparison of the step failed on an image of the kind Failing
FailedOn(t, Failing(_)) ==
    /\ cfg.media_magic /\ ImageFile(t.work) /\ t.candidates # <<>>
    /\ \/ Failing(t.work)
       \/ \E i \in 1..Len(t.candidates) :
             /\ Failing(t.candidates[i])
             /\ \A j \in 1..(i - 1) : ~SoundMatch(t.work, t.candidates[j])

\* the failing candidates counted as non-matching: the work file got the first
\* sound match, or none and then the treatment of an unmatched file, and the loop
\* went on to the next file
CaughtAndSkipped(t) ==
    /\ t.original = FirstSound(t)
    /\ FirstSound(t) # NoPath /\ ~cfg.invert_selection => t.outcome = "affect"
    /\ FirstSound(t) = NoPath /\ cfg.invert_selection => t.outcome = "affect"
    /\ pc' = "loop" /\ idx' = idx + 1

\* C33: a decode or hash failure raised while comparing a work file with a
\* candidate is caught, that candidate is treated as non-matching, the remaining
\* candidates of the work file are still evaluated, the work file is never retried
\* and the run is not aborted
C33_FailureSkipsCandidate ==
    [][(pc = "loop" /\ trace' # trace /\ FailedOn(trace'[Len(trace')], Undecodable))
        => CaughtAndSkipped(trace'[Len(trace')])]_vars

CorruptOnly(p) == fs[p].hash = CorruptHash /\ \A q \in DOMAIN fs : fs[q].hash # BombHash

BombOnly(p) == fs[p].hash = BombHash

\* what holds of C33: an OSError of the decoder is handled as claimed
C33_OSErrorSkipsCandidate ==
    [][(pc = "loop" /\ trace' # trace /\ FailedOn(trace'[Len(trace')], CorruptOnly))
        => CaughtAndSkipped(trace'[Len(trace')])]_vars

\* what holds of C33: a decompression bomb is neither retried nor does it abort
C33_BombNotRetried ==
    [][(pc = "loop" /\ trace' # trace /\ FailedOn(trace'[Len(trace')], BombOnly))
        => pc' = "loop" /\ idx' = idx + 1]_vars

----------------------------------------------------------------------------
(* The change log *)

\* the list s with entries appended, or s itself
Extends(longer, s) ==
    Len(longer) >= Len(s) /\ \A i \in 1..Len(s) : longer[i] = s[i]

\* the call got past the warning gate of _affect: it counted the pair, or it
\* logged it as skipped on warning
ReachedGate ==
    \/ affected_count' = affected_count + 1
    \/ Len(changes') > Len(changes) /\ Suppressed(changes'[Len(changes')])

\* the call appended exactly one entry, for the work file and the file handed to _affect
LoggedOnce(t) ==
    /\ Len(changes') = Len(changes) + 1
    /\ changes'[Len(changes')].work = t.work
    /\ changes'[Len(changes')].orig = t.other

\* the call appended nothing, or one entry of its own work file
LoggedInOrder(t) ==
    \/ changes' = changes
    \/ Len(changes') = Len(changes) + 1 /\ changes'[Len(changes')].work = t.work

\* C34: during a run the change log is only appended to, each matched pair that
\* reaches the warning gate appends exactly one entry whose two keys are the work
\* file and the other file, and the entries appear in the order in which the work
\* files were processed
C34_ChangeLogAppendOnly ==
    [][/\ pc # "new" => Extends(changes', changes)
       /\ (pc = "loop" /\ trace' # trace) =>
             /\ LoggedInOrder(trace'[Len(trace')])
             /\ ReachedGate => LoggedOnce(trace'[Len(trace')])]_vars

\* what holds of C34: the log is append-only and in processing order, and a call
\* that no exception leaves logs the pair that reached the gate exactly once
C34_LoggedUnlessRaised ==
    [][/\ pc # "new" => Extends(changes', changes)
       /\ (pc = "loop" /\ trace' # trace) =>
             /\ LoggedInOrder(trace'[Len(trace')])
             /\ ReachedGate /\ trace'[Len(trace')].outcome # "raised" =>
                   LoggedOnce(trace'[Len(trace')])]_vars

----------------------------------------------------------------------------
(* The metadata cache: the pre-warm and the eviction *)

\* two work images and two originals of one name, in two directories or in one,
\* for every mode, with and without name matching, the date gate and the re-dating
InitWarm ==
    InitWith({WithMode([Default EXCEPT !.execute = TRUE, !.original_dir = od,
                                       !.media_magic = TRUE, !.neglect_warning = TRUE,
                                       !.ignore_name = ig, !.img_compare_date = dt,
                                       !.set_both_to_older_date = sb], md) :
                 od \in {"", "orig"}, ig \in BOOLEAN, dt \in BOOLEAN, sb \in BOOLEAN,
                 md \in OneMode},
             Trees({a_jpg("w1"), a_jpg("w2")}, {File(1, 0, t, 0, 0) : t \in {0, 2 * Hz}},
                   {a_jpg("o1"), a_jpg("o2")}, {File(1, 0, 0, h, 0) : h \in {0, 3}}),
             {0})

SpecWarm == InitWarm /\ [][Next]_vars

\* the loop is about to take its first work file
BeforeFirstMatch == pc = "loop" /\ trace = <<>>

\* the cache entry of the path holds what preload reads from the file
Prewarmed(p) ==
    /\ p \in DOMAIN metadata
    /\ metadata[p] = Meta(fs[p].hash, fs[p].mtime, fs[p].exif)

\* C35: with media_magic and without name matching every image of the reference
\* set has its metadata cache entry before the first work file is matched, and the
\* content of the cache is the same whatever the order in which the workers complete
C35_PrewarmedBeforeMatching ==
    (BeforeFirstMatch /\ cfg.media_magic /\ cfg.ignore_name) =>
        /\ \A i \in 1..Len(file_list) :
              ImageFile(file_list[i]) => Prewarmed(file_list[i])
        /\ DOMAIN metadata = SetOf(Images(file_list))

\* the cache is pre-warmed with two images of different hashes
C35_Witness ==
    /\ BeforeFirstMatch /\ cfg.media_magic /\ cfg.ignore_name
    /\ \E p, q \in DOMAIN metadata : metadata[p].hash # metadata[q].hash

\* a .jpg and two .png images of one stem in the work directories, which are the
\* originals as well or have a .png original beside them; replace_with_original
InitStale ==
    InitWith({[Default EXCEPT !.execute = TRUE, !.original_dir = od,
                              !.media_magic = TRUE, !.neglect_warning = TRUE,
                              !.replace_with_original = TRUE] :
                 od \in {"", "orig"}},
             Trees({a_jpg("w1"), Path("w1", <<"a">>, ".png"), Path("w2", <<"a">>, ".png")},
                   {File(1, 0, 0, h, 0) : h \in {0, 3}},
                   {Path("o1", <<"a">>, ".png")}, {File(1, 0, 0, h, 0) : h \in {0, 3}}),
             {0})

SpecStale == InitStale /\ [][Next]_vars

\* the file system calls of the step
NewOps == SubSeq(fsops', Len(fsops) + 1, Len(fsops'))

\* the paths the step renamed, deleted, overwrote or re-dated
Mutated == {NewOps[i].path : i \in 1..Len(NewOps)}

\* the paths the step mutated as the affected file or the re-dated file of a
\* handler: all but the target of a copy into the directory of the affected file
MutatedByName ==
    {NewOps[i].path : i \in {j \in 1..Len(NewOps) :
        NewOps[j].op = "copy2" => NameOf(NewOps[j].path) = NameOf(NewOps[j].work)}}

\* C36: right after a path is renamed, deleted, replaced or re-dated in execute
\* mode the metadata cache holds no entry for that path
C36_EvictedOnMutation ==
    [][(pc = "loop" /\ cfg.execute /\ fsops' # fsops) =>
          \A p \in Mutated : p \notin DOMAIN metadata']_vars

\* what holds of C36: the path a handler was called for has no entry afterwards
C36_HandledPathEvicted ==
    [][(pc = "loop" /\ cfg.execute /\ fsops' # fsops) =>
          \A p \in MutatedByName : p \notin DOMAIN metadata']_vars

----------------------------------------------------------------------------
(* The kept file *)

\* the file the work file of the entry was paired with, as seen from the path p
KeptOf(t, p) == IF p = t.work THEN t.original ELSE t.work

\* the step renamed or deleted a file of a matched pair
Removals ==
    {i \in 1..Len(NewOps) : NewOps[i].op \in {"rename", "unlink"}}

\* the file kept beside the removed path p is another path, is on the disk before
\* and after the step and is not in passed-away
KeptSound(t, p) ==
    /\ KeptOf(t, p) # p
    /\ KeptOf(t, p) \in DOMAIN fs /\ KeptOf(t, p) \in DOMAIN fs'
    /\ KeptOf(t, p) \notin passed_away /\ KeptOf(t, p) \notin passed_away'

C37_KeptFilePresent ==
    [][(pc = "loop" /\ cfg.execute /\ ~cfg.invert_selection /\ (cfg.rename \/ cfg.delete)
        /\ trace' # trace) =>
          \A i \in Removals : KeptSound(trace'[Len(trace')], NewOps[i].path)]_vars

\* three images of one stem and one size in the work directories, which are the
\* originals as well, with hashes zero, one or two bits apart
InitGroup ==
    InitWith({WithMode([Default EXCEPT !.execute = TRUE, !.original_dir = "",
                                       !.media_magic = TRUE, !.neglect_warning = TRUE], md) :
                 md \in {m \in OneMode : m.rename \/ m.delete}},
             Trees({a_jpg("w1"), a_jpg("w2"), Path("w1", <<"a">>, ".png")},
                   {File(1, 0, 0, h, 0) : h \in {0, 1, 3}}, {}, {}),
             {0})

SpecGroup == InitGroup /\ [][Next]_vars

\* the two images were duplicates of each other when the run started
Duplicates(p, q) ==
    /\ ImageFile(p) /\ ImageFile(q) /\ ~StartsWithMarker(p) /\ ~StartsWithMarker(q)
    /\ HashDist(fs0[p].hash, fs0[q].hash) <= cfg.accepted_img_hash_diff

\* the groups of two or more mutually duplicate files, each as large as can be
Groups ==
    {G \in SUBSET (DOMAIN fs0 \ {DevNull}) :
        /\ Cardinality(G) >= 2
        /\ \A p, q \in G : p # q => Duplicates(p, q)
        /\ \A r \in DOMAIN fs0 \ (G \cup {DevNull}) : \E p \in G : ~Duplicates(p, r)}

\* a file of the group is still at its path
Survives(G) == \E p \in G : p \in DOMAIN fs

\* C37: in execute mode without invert_selection, whenever a file is renamed or
\* deleted, the file it was matched against is another path, exists on disk and is
\* not in passed-away; and at the end of the run at least one file of every group
\* of mutually duplicate files is left unmarked and undeleted
C37_KeptFileSurvives ==
    /\ C37_KeptFilePresent
    /\ []((pc = "done" /\ cfg.execute /\ ~cfg.invert_selection) =>
            \A G \in Groups : Survives(G))

C37_GroupSurvives ==
    (pc = "done" /\ cfg.execute /\ ~cfg.invert_selection) => \A G \in Groups : Survives(G)

\* being duplicates is transitive among the files the run started with
Transitive ==
    \A p, q, r \in DOMAIN fs0 \ {DevNull} :
        (p # q /\ q # r /\ p # r /\ Duplicates(p, q) /\ Duplicates(q, r)) => Duplicates(p, r)

\* what holds of C37: a file of every group is left when no file is a duplicate
\* of two files that are no duplicates of each other
C37_GroupSurvivesIfTransitive ==
    (pc = "done" /\ cfg.execute /\ ~cfg.invert_selection /\ Transitive) =>
        \A G \in Groups : Survives(G)

----------------------------------------------------------------------------
(* The counters and the change log *)

\* the number of entries of the change log that satisfy P
Entries(P(_)) == Cardinality({i \in 1..Len(changes) : P(changes[i])})

\* C38: after every processed work file, also one whose action raised and that was
\* retried, affected_count plus the number of entries carrying "skipped on warning"
\* is the length of the change log, and warning_count is the number of entries
\* carrying a SIZE or DATE warning
C38_CountersAgreeWithLog ==
    pc \in {"loop", "done"} =>
        /\ affected_count + Entries(Suppressed) = Len(changes)
        /\ warning_count = Entries(Warned)

\* what holds of C38: the warnings are counted as logged
C38_WarningsAsLogged ==
    pc \in {"loop", "done"} => warning_count = Entries(Warned)

\* what holds of C38: the counters agree with the log while no call has raised
C38_AgreeUnlessRaised ==
    (pc \in {"loop", "done"} /\ \A i \in 1..Len(trace) : trace[i].outcome # "raised") =>
        affected_count + Entries(Suppressed) = Len(changes)

----------------------------------------------------------------------------
(* The dry run and the run that executes *)

\* after a run with execute=False the program is run with execute=True on the same
\* files, with the same configuration otherwise and the same file listings
Execute ==
    /\ pc = "done"
    /\ run < MaxRuns
    /\ ~cfg.execute
    /\ run' = run + 1
    /\ pc' = "new"
    /\ cfg' = [cfg EXCEPT !.execute = TRUE]
    /\ prior' = <<[work_files |-> work_files, idx |-> idx, skip |-> cfg.skip,
                   trace |-> trace, fs0 |-> fs0, changes |-> changes]>>
    /\ fs0' = fs
    /\ fsops' = <<>>
    /\ trace' = <<>>
    /\ sleeps' = <<>>
    /\ UNCHANGED <<fs, build_cache, file_list, files_cache, work_files, idx, attempt,
                   changes, passed_away, size_affected, affected_count, warning_count,
                   ignored_count, having_multiple_candidates, metadata,
                   faults, bar_n, offset>>

NextDry == Next \/ Execute

\* dry runs of every mode, with and without bashify, over two work images and an
\* original of one name, in two directories or in one, plain and by media
InitDry ==
    InitWith({WithMode([Default EXCEPT !.bashify = ba, !.original_dir = od,
                                       !.media_magic = mm.media,
                                       !.treat_bigger_as_original = mm.bigger,
                                       !.neglect_warning = TRUE], md) :
                 ba \in BOOLEAN, od \in {"", "orig"},
                 mm \in {[media |-> FALSE, bigger |-> FALSE], [media |-> TRUE, bigger |-> FALSE],
                         [media |-> TRUE, bigger |-> TRUE]},
                 md \in {m \in OneMode : m.rename \/ m.delete \/ m.replace_with_original}},
             Trees({a_jpg("w1"), a_jpg("w2")}, {File(sz, 0, 0, 0, 0) : sz \in 1..MaxSize},
                   {a_jpg("o1")}, {File(sz, 0, 0, 0, 0) : sz \in 1..MaxSize}),
             {0})

SpecDry == InitDry /\ [][NextDry]_vars

\* the files of the log that carry one of the notes Forms
Noted(log, Forms) ==
    {log[i].work : i \in {j \in 1..Len(log) : NoteTexts(log[j].wnotes) \cap Forms # {}}}
    \cup {log[i].orig : i \in {j \in 1..Len(log) : NoteTexts(log[j].onotes) \cap Forms # {}}}

\* the run that executes, after its dry run, is over
Executed == pc = "done" /\ run = 2 /\ prior # <<>> /\ cfg.execute

\* C39: the files a run with execute=False reports as affectable are the files the
\* run with execute=True on the same files and configuration remediates
C39_DryRunFidelity ==
    Executed =>
        Noted(prior[1].changes, {"renamable", "deletable", "replacable"})
        = Noted(changes, {"renaming", "deleting", "replacing"})

\* what holds of C39: the two runs agree when no file is both a work file and a
\* candidate
C39_FidelityOfApartDirs ==
    (Executed /\ Disjoint(cfg) /\ ~cfg.treat_bigger_as_original) =>
        Noted(prior[1].changes, {"renamable", "deletable", "replacable"})
        = Noted(changes, {"renaming", "deleting", "replacing"})

====
